---- MODULE Spec2Model ----
(***************************************************************************)
(* Model of backend/server.py: the response parsers (embedded JSON,        *)
(* delimited sections, competitor lines), the scenario fallback, and the   *)
(* request handlers that write the two collections.                        *)
(*                                                                         *)
(* Text is modelled after lexing: a raw model response is a sequence of    *)
(* tokens.  JSON punctuation, key strings (a string together with the      *)
(* colon after it), string literals and the number literal are tokens;     *)
(* "w" is a word of prose, which is no JSON token.                         *)
(***************************************************************************)
EXTENDS Integers, Sequences, FiniteSets, TLC

VARIABLES
    therapy_analyses,      \* db.therapy_analyses, in insertion order
    patient_flow_funnels,  \* db.patient_flow_funnels, in insertion order
    clock,                 \* datetime.utcnow(), in ticks
    http,                  \* outcome of the last request handler
    response,              \* raw text returned by the last model call
    scenarios,             \* the caller's scenario list of the last call
    result,                \* value built by the last parser / generator
    op,                    \* the operation that acted last
    inflight,              \* the requests being handled, each at an await
    exported               \* the exports returned since the store last changed

vars == <<therapy_analyses, patient_flow_funnels, clock, http, response, scenarios, result, op,
          inflight, exported>>

store == <<therapy_analyses, patient_flow_funnels>>

----------------------------------------------------------------------------
(* Bounds of the model *)

MaxJsonLen == 6

MaxSectionLen == 4

MaxScenarios == 4

MaxLines == 3

MaxCompanyLines == 6

MaxAnalyses == 1

MaxFunnels == 2

MaxClock == 1

MaxExports == 2

----------------------------------------------------------------------------
(* Python helpers on sequences *)

Min(a, b) == IF a < b THEN a ELSE b

Max(a, b) == IF a > b THEN a ELSE b

\* s[a:b] with Python's rules: 0-based, negative indices count from the end,
\* both ends clamped, empty when the start is not before the end.
PySlice(s, a, b) ==
    LET n  == Len(s)
        lo == IF a < 0 THEN Max(n + a, 0) ELSE Min(a, n)
        hi == IF b < 0 THEN Max(n + b, 0) ELSE Min(b, n)
    IN  IF lo >= hi THEN <<>> ELSE SubSeq(s, lo + 1, hi)

\* str.find: 0-based index of the first occurrence, -1 when absent
Find(s, t) ==
    IF \E i \in 1..Len(s) : s[i] = t
    THEN (CHOOSE i \in 1..Len(s) : s[i] = t /\ \A j \in 1..(i - 1) : s[j] # t) - 1
    ELSE -1

\* str.rfind: 0-based index of the last occurrence, -1 when absent
RFind(s, t) ==
    IF \E i \in 1..Len(s) : s[i] = t
    THEN (CHOOSE i \in 1..Len(s) : s[i] = t /\ \A j \in (i + 1)..Len(s) : s[j] # t) - 1
    ELSE -1

Elems(s) == {s[i] : i \in 1..Len(s)}

IsPrefix(p, s) == Len(p) <= Len(s) /\ SubSeq(s, 1, Len(p)) = p

\* all sequences over S of length at most n
SeqsUpTo(S, n) == UNION {[1..k -> S] : k \in 0..n}

----------------------------------------------------------------------------
(* json.loads on token sequences *)

\* key strings, each standing for the string and the colon after it
KeyTokens == {"k", "funnel_stages", "total_addressable_population",
              "forecasting_notes", "stage", "description", "percentage",
              "notes", "projections"}

NumTokens == {"1"}

\* string literals
StrTokens == {"s", "100%", "50%", "X%"}

RECURSIVE ParseValue(_, _), ParseMembers(_, _), ParseElements(_, _)

\* The position just after the JSON value that starts at s[i]; 0 when no
\* value starts there.
ParseValue(s, i) ==
    IF i > Len(s) THEN 0
    ELSE IF s[i] \in NumTokens \cup StrTokens THEN i + 1
    ELSE IF s[i] = "{"
         THEN IF i + 1 <= Len(s) /\ s[i + 1] = "}" THEN i + 2
              ELSE ParseMembers(s, i + 1)
    ELSE IF s[i] = "["
         THEN IF i + 1 <= Len(s) /\ s[i + 1] = "]" THEN i + 2
              ELSE ParseElements(s, i + 1)
    ELSE 0

\* members of an object from the key at s[i] to the closing brace
ParseMembers(s, i) ==
    IF i > Len(s) \/ s[i] \notin KeyTokens THEN 0
    ELSE LET j == ParseValue(s, i + 1)
         IN  IF j = 0 \/ j > Len(s) THEN 0
             ELSE IF s[j] = "}" THEN j + 1
             ELSE IF s[j] = "," THEN ParseMembers(s, j + 1)
             ELSE 0

\* elements of an array from the value at s[i] to the closing bracket
ParseElements(s, i) ==
    LET j == ParseValue(s, i)
    IN  IF j = 0 \/ j > Len(s) THEN 0
        ELSE IF s[j] = "]" THEN j + 1
        ELSE IF s[j] = "," THEN ParseElements(s, j + 1)
        ELSE 0

\* json.loads(s) does not raise: s is exactly one JSON document
JsonValid(s) == ParseValue(s, 1) = Len(s) + 1

\* Python values.  A str is its text; a dict maps key strings to values.
Str(t) == [kind |-> "str", text |-> t]

Num(t) == [kind |-> "num", text |-> t]

List(e) == [kind |-> "list", elems |-> e]

Dict(f) == [kind |-> "dict", items |-> f]

EmptyDict == Dict([x \in {} |-> 0])

None == [kind |-> "none"]

\* the characters of a string literal, '%' as a token of its own
TextOf(tok) ==
    IF tok = "100%" THEN <<"100", "%">>
    ELSE IF tok = "50%" THEN <<"50", "%">>
    ELSE IF tok = "X%" THEN <<"X", "%">>
    ELSE <<tok>>

RECURSIVE Decode(_), MembersFrom(_, _, _), ElementsFrom(_, _)

\* json.loads(s) for a valid document s
Decode(s) ==
    IF s[1] \in NumTokens THEN Num(s)
    ELSE IF s[1] \in StrTokens THEN Str(TextOf(s[1]))
    ELSE IF s[1] = "{" THEN Dict(MembersFrom(s, 2, [x \in {} |-> 0]))
    ELSE List(ElementsFrom(s, 2))

\* The dict built from the members starting at s[i]: a repeated key keeps its
\* last value.
MembersFrom(s, i, acc) ==
    IF i > Len(s) \/ s[i] \notin KeyTokens THEN acc
    ELSE LET j == ParseValue(s, i + 1)
             v == Decode(SubSeq(s, i + 1, j - 1))
             nxt == [x \in DOMAIN acc \cup {s[i]} |-> IF x = s[i] THEN v ELSE acc[x]]
         IN  MembersFrom(s, j + 1, nxt)

\* The list built from the elements starting at s[i]
ElementsFrom(s, i) ==
    IF i > Len(s) \/ s[i] = "]" THEN <<>>
    ELSE LET j == ParseValue(s, i)
         IN  <<Decode(SubSeq(s, i, j - 1))>> \o ElementsFrom(s, j + 1)

\* d.get(key, default) on a dict
Get(d, key, default) == IF key \in DOMAIN d.items THEN d.items[key] ELSE default

\* key in d
Has(d, key) == d.kind = "dict" /\ key \in DOMAIN d.items

----------------------------------------------------------------------------
(* The embedded-JSON parsers *)

NotesPrefix == 200

\* generate_patient_flow_funnel: the record built when decoding fails
FunnelFallback(resp) ==
    Dict([k \in {"funnel_stages", "total_addressable_population", "forecasting_notes"} |->
        IF k = "funnel_stages"
        THEN List(<<
            Dict([f \in {"stage", "description", "percentage", "notes"} |->
                IF f = "stage" THEN Str(<<"Total Population">>)
                ELSE IF f = "description" THEN Str(<<"Analysis generated">>)
                ELSE IF f = "percentage" THEN Str(<<"100", "%">>)
                ELSE Str(<<"See full response">>)]),
            Dict([f \in {"stage", "description", "percentage", "notes"} |->
                IF f = "stage" THEN Str(<<"Target Population">>)
                ELSE IF f = "description" THEN Str(<<"Detailed analysis provided">>)
                ELSE IF f = "percentage" THEN Str(<<"Variable">>)
                ELSE Str(PySlice(resp, 0, NotesPrefix) \o <<"...">>)]) >>)
        ELSE IF k = "total_addressable_population"
        THEN Str(<<"See full analysis response">>)
        ELSE Str(resp)])

\* FunnelJsonStr with the end taken at the first '}' instead of the last
FunnelJsonStrFirstClose(resp) ==
    LET json_start == Find(resp, "{")
        json_end   == Find(resp, "}") + 1
    IN  PySlice(resp, json_start, json_end)

\* the text handed to json.loads: from the first '{' to the last '}'
FunnelJsonStr(resp) ==
    LET json_start == Find(resp, "{")
        json_end   == RFind(resp, "}") + 1
    IN  PySlice(resp, json_start, json_end)

\* generate_patient_flow_funnel, "Parse JSON response": parsed_response
ParseFunnelResponse(resp) ==
    IF JsonValid(FunnelJsonStr(resp))
    THEN Decode(FunnelJsonStr(resp))
    ELSE FunnelFallback(resp)

\* search_regulatory_intelligence: the record built when decoding fails
RegulatoryFallback(resp) ==
    Dict([k \in {"pathways", "recent_activity", "trends", "timelines", "market_access"} |->
        IF k = "market_access" THEN Str(resp) ELSE Str(<<"See full analysis">>)])

\* ParseRegulatoryResponse decoding the slice from the first '{' to the last
\* '}' as the funnel parser does
ParseRegulatoryEmbedded(resp) ==
    IF JsonValid(FunnelJsonStr(resp))
    THEN Decode(FunnelJsonStr(resp))
    ELSE RegulatoryFallback(resp)

\* search_regulatory_intelligence: json.loads of the whole response
ParseRegulatoryResponse(resp) ==
    IF JsonValid(resp) THEN Decode(resp) ELSE RegulatoryFallback(resp)

RiskLevel(level) ==
    Dict([f \in {"level", "factors"} |->
        IF f = "level" THEN Str(<<level>>) ELSE List(<<Str(<<"See analysis">>)>>)])

\* RiskFallback that keeps a fixed note instead of the raw text
RiskFallbackNoRaw(resp) ==
    Dict([k \in {"clinical_risk", "regulatory_risk", "commercial_risk",
                 "operational_risk", "market_risk", "overall_score",
                 "full_assessment"} |->
        IF k = "operational_risk" THEN RiskLevel("Low")
        ELSE IF k = "overall_score" THEN Num(<<"5">>)
        ELSE IF k = "full_assessment" THEN Str(<<"See analysis">>)
        ELSE RiskLevel("Medium")])

\* generate_risk_assessment: the record built when decoding fails
RiskFallback(resp) ==
    Dict([k \in {"clinical_risk", "regulatory_risk", "commercial_risk",
                 "operational_risk", "market_risk", "overall_score",
                 "full_assessment"} |->
        IF k = "operational_risk" THEN RiskLevel("Low")
        ELSE IF k = "overall_score" THEN Num(<<"5">>)
        ELSE IF k = "full_assessment" THEN Str(resp)
        ELSE RiskLevel("Medium")])

\* generate_risk_assessment: json.loads of the whole response
ParseRiskResponse(resp) ==
    IF JsonValid(resp) THEN Decode(resp) ELSE RiskFallback(resp)

----------------------------------------------------------------------------
(* analyze_therapy_area: the delimited-section parser.  Here the text is a  *)
(* sequence of characters, each section title being one token.             *)

SectionTitles == <<"DISEASE SUMMARY", "STAGING", "BIOMARKERS",
                   "TREATMENT ALGORITHM", "PATIENT JOURNEY">>

Whitespace == {" ", "\n"}

\* s starts with the tokens of t at position i
MatchAt(s, i, t) == i + Len(t) - 1 <= Len(s) /\ SubSeq(s, i, i + Len(t) - 1) = t

RECURSIVE Split(_, _)

\* str.split(sep): the pieces between the occurrences of sep, left to right
Split(s, sep) ==
    IF \E i \in 1..Len(s) : MatchAt(s, i, sep)
    THEN LET i == CHOOSE x \in 1..Len(s) :
                    MatchAt(s, x, sep) /\ \A y \in 1..(x - 1) : ~MatchAt(s, y, sep)
         IN  <<SubSeq(s, 1, i - 1)>> \o Split(SubSeq(s, i + Len(sep), Len(s)), sep)
    ELSE <<s>>

RECURSIVE Replace(_, _)

\* str.replace(old, ''): every occurrence of old removed, left to right
Replace(s, old) ==
    IF \E i \in 1..Len(s) : MatchAt(s, i, old)
    THEN LET i == CHOOSE x \in 1..Len(s) :
                    MatchAt(s, x, old) /\ \A y \in 1..(x - 1) : ~MatchAt(s, y, old)
         IN  SubSeq(s, 1, i - 1) \o Replace(SubSeq(s, i + Len(old), Len(s)), old)
    ELSE s

\* str.strip(): leading and trailing whitespace removed
Strip(s) ==
    IF \A i \in 1..Len(s) : s[i] \in Whitespace THEN <<>>
    ELSE LET lo == CHOOSE x \in 1..Len(s) :
                     s[x] \notin Whitespace /\ \A y \in 1..(x - 1) : s[y] \in Whitespace
             hi == CHOOSE x \in 1..Len(s) :
                     s[x] \notin Whitespace /\ \A y \in (x + 1)..Len(s) : s[y] \in Whitespace
         IN  SubSeq(s, lo, hi)

NoSections == [disease_summary |-> <<>>, staging |-> <<>>, biomarkers |-> <<>>,
               treatment_algorithm |-> <<>>, patient_journey |-> <<>>]

\* the body of the loop: the section's title decides the field it sets
SetSection(acc, section) ==
    LET body(title) == Strip(Replace(section, <<title, "\n">>))
    IN  IF section = <<>> THEN acc
        ELSE IF section[1] = "DISEASE SUMMARY"
             THEN [acc EXCEPT !.disease_summary = body("DISEASE SUMMARY")]
        ELSE IF section[1] = "STAGING"
             THEN [acc EXCEPT !.staging = body("STAGING")]
        ELSE IF section[1] = "BIOMARKERS"
             THEN [acc EXCEPT !.biomarkers = body("BIOMARKERS")]
        ELSE IF section[1] = "TREATMENT ALGORITHM"
             THEN [acc EXCEPT !.treatment_algorithm = body("TREATMENT ALGORITHM")]
        ELSE IF section[1] = "PATIENT JOURNEY"
             THEN [acc EXCEPT !.patient_journey = body("PATIENT JOURNEY")]
        ELSE acc

RECURSIVE SetSections(_, _)

SetSections(acc, sections) ==
    IF sections = <<>> THEN acc
    ELSE SetSections(SetSection(acc, Head(sections)), Tail(sections))

\* ParseSections looping over every piece, the preamble included
ParseSectionsFromFirst(resp) ==
    SetSections(NoSections, Split(resp, <<"#", "#", " ">>))

\* analyze_therapy_area, "Parse the response into structured sections"
ParseSections(resp) ==
    SetSections(NoSections, Tail(Split(resp, <<"#", "#", " ">>)))

----------------------------------------------------------------------------
(* generate_scenario_models *)

\* str.title() of a scenario name, with the word that follows it
Titled(scenario, word) == <<"title", scenario, word>>

base_projections == <<100, 250, 500, 750, 900, 800>>

\* MultiplierTenths clamping the index at 1, so that 1.8 is never chosen
MultiplierTenthsClampedAtOne(i) == <<6, 10, 18>>[Min(i, 1) + 1]

\* [0.6, 1.0, 1.8][min(i, 2)], in tenths
MultiplierTenths(i) == <<6, 10, 18>>[Min(i, 2) + 1]

\* int(p * multiplier): the product truncated toward zero.  The products of
\* the base curve and the three multipliers are whole numbers in floating
\* point as well, so the exact quotient is the value Python computes.
Scaled(p, i) == (p * MultiplierTenths(i)) \div 10

\* fallback[scenario] for the scenario at 0-based position i
ScenarioEntry(scenario, i, resp) ==
    [assumptions |-> <<Titled(scenario, "market conditions")>>,
     projections |-> [n \in 1..Len(base_projections) |-> Scaled(base_projections[n], i)],
     peak_sales |-> Scaled(900, i),
     market_share_trajectory |-> <<2, 5, 8, 12, 15, 13>>,
     key_factors |-> <<Titled(scenario, "execution")>>,
     full_analysis |-> resp]

RECURSIVE ScenarioFallbackFrom(_, _, _, _)

\* the loop over enumerate(scenarios): a later entry replaces an earlier one
\* stored under the same name
ScenarioFallbackFrom(scens, i, resp, acc) ==
    IF i >= Len(scens) THEN acc
    ELSE LET name == scens[i + 1]
             nxt  == [x \in DOMAIN acc \cup {name} |->
                        IF x = name THEN ScenarioEntry(name, i, resp) ELSE acc[x]]
         IN  ScenarioFallbackFrom(scens, i + 1, resp, nxt)

\* generate_scenario_models once the model call has returned resp
ScenarioModels(scens, resp) ==
    IF JsonValid(resp) THEN Decode(resp)
    ELSE Dict(ScenarioFallbackFrom(scens, 0, resp, [x \in {} |-> 0]))

----------------------------------------------------------------------------
(* generate_competitive_analysis: the line-classification parser.  A line   *)
(* is a sequence of words, numbers, list markers, punctuation marks and    *)
(* spaces; the raw text joins its lines with "\n".  "(bullet)" is the      *)
(* bullet character U+2022.                                                *)

\* the characters of each word of the vocabulary
WordLen ==
    [a \in {"Acme", "Corp", "Beta", "Inc", "AB", "Pfizer", "Bristol", "Myers",
            "share", "strong", "pipeline", "growth", "leads", "market", "leader",
            "MAJOR", "COMPETITORS", "MARKET", "DYNAMICS"} |->
        CASE a = "AB" -> 2
          [] a = "Inc" -> 3
          [] a \in {"Acme", "Corp", "Beta"} -> 4
          [] a \in {"share", "leads", "Myers", "MAJOR"} -> 5
          [] a \in {"Pfizer", "strong", "growth", "market", "leader", "MARKET"} -> 6
          [] a = "Bristol" -> 7
          [] a \in {"pipeline", "DYNAMICS"} -> 8
          [] OTHER -> 11]

\* int() of a run of digits
Digits == [a \in {"5", "10", "12", "30"} |->
              CASE a = "5" -> 5 [] a = "10" -> 10 [] a = "12" -> 12 [] OTHER -> 30]

NumberMarkers == {"1.", "2.", "3.", "4.", "5.", "6.", "7."}

\* len() of one token
AtomLen(a) ==
    IF a \in DOMAIN WordLen THEN WordLen[a]
    ELSE IF a \in NumberMarkers \cup {"10", "12", "30"} THEN 2
    ELSE IF a = "..." THEN 3
    ELSE 1

RECURSIVE CharLen(_)

\* len() of a text
CharLen(s) == IF s = <<>> THEN 0 ELSE AtomLen(Head(s)) + CharLen(Tail(s))

\* s[:n] in characters (a cut falls between two tokens)
TakeChars(s, n) ==
    LET fits == {k \in 0..Len(s) : CharLen(SubSeq(s, 1, k)) <= n}
    IN  SubSeq(s, 1, CHOOSE k \in fits : \A x \in fits : x <= k)

\* the keywords that the upper-cased token holds, in whole or, for the
\* keywords of two words, as the word that ends or begins it
Fragments(a) ==
    CASE a \in {"COMPETITORS"} -> {"COMPETITOR"}
      [] a \in {"MAJOR"} -> {"MAJOR"}
      [] a \in {"MARKET", "market"} -> {"MARKET"}
      [] a \in {"DYNAMICS"} -> {"DYNAMIC"}
      [] a \in {"pipeline"} -> {"PIPELINE"}
      [] OTHER -> {}

\* keyword in line.upper(), for a keyword of one word
HasWord(line, kw) == \E i \in 1..Len(line) : kw \in Fragments(line[i])

\* keyword in line.upper(), for a keyword of two words
HasPair(line, first, second) ==
    \E i \in 1..(Len(line) - 2) :
        /\ first \in Fragments(line[i])
        /\ line[i + 1] = " "
        /\ second \in Fragments(line[i + 2])

\* the section a keyword line names, "" for a line that holds no keyword
SectionOf(line) ==
    IF HasWord(line, "COMPETITOR") \/ HasWord(line, "MAJOR") \/ HasPair(line, "KEY", "PLAYER")
    THEN "competitors"
    ELSE IF HasPair(line, "MARKET", "DYNAMIC") \/ HasPair(line, "MARKET", "TREND")
    THEN "market_dynamics"
    ELSE IF HasWord(line, "PIPELINE") \/ HasWord(line, "DEVELOPMENT")
    THEN "pipeline"
    ELSE IF HasWord(line, "POSITIONING") \/ HasWord(line, "DIFFERENTIAT")
    THEN "positioning"
    ELSE IF HasWord(line, "CATALYST") \/ HasWord(line, "UPCOMING") \/ HasWord(line, "EVENTS")
    THEN "catalysts"
    ELSE ""

\* any(char in line for char in ['-', bullet, '1.', '2.', '3.'])
HasListMarker(line) == Elems(line) \cap {"-", "(bullet)", "1.", "2.", "3."} # {}

RECURSIVE CleanName(_, _)

\* the loop that removes each list marker from the name and strips it
CleanName(company_part, prefixes) ==
    IF prefixes = <<>> THEN company_part
    ELSE CleanName(Strip(Replace(company_part, <<Head(prefixes)>>)), Tail(prefixes))

NamePrefixes == <<"1.", "2.", "3.", "4.", "5.", "6.", "7.", "-", "(bullet)">>

\* re.search(r'(\d+)%', details) finds a match
HasShare(details) ==
    \E i \in 1..(Len(details) - 1) : details[i] \in DOMAIN Digits /\ details[i + 1] = "%"

\* int(share_match.group(1)): the first run of digits followed by '%'
ShareOf(details) ==
    LET i == CHOOSE x \in 1..(Len(details) - 1) :
                /\ details[x] \in DOMAIN Digits /\ details[x + 1] = "%"
                /\ \A y \in 1..(x - 1) : ~(details[y] \in DOMAIN Digits /\ details[y + 1] = "%")
    IN  Digits[details[i]]

\* the default that create_market_analysis_chart gives a missing market_share
ChartDefaultShare == 5

\* "market_share = 25  # Default"
DefaultMarketShare == 25

\* the competitor entries a line adds while the section is "competitors"
CompetitorOf(line) ==
    LET colon        == Find(line, ":")
        company_part == IF colon >= 0 THEN Strip(PySlice(line, 0, colon)) ELSE Strip(line)
        details_part == IF colon >= 0 THEN Strip(PySlice(line, colon + 1, Len(line))) ELSE <<>>
        name         == CleanName(company_part, NamePrefixes)
        market_share == IF "%" \in Elems(details_part) /\ HasShare(details_part)
                        THEN ShareOf(details_part)
                        ELSE DefaultMarketShare
    IN  IF HasListMarker(line) /\ name # <<>> /\ CharLen(name) > 2
        THEN << [name |-> TakeChars(name, 50),
                 products |-> IF details_part # <<>> THEN TakeChars(details_part, 100)
                              ELSE <<"Market presence">>,
                 market_share |-> market_share,
                 strengths |-> IF details_part # <<>> THEN TakeChars(details_part, 100)
                               ELSE <<"Established player">>,
                 weaknesses |-> <<"See analysis for details">>] >>
        ELSE <<>>

RECURSIVE JoinLines(_)

\* '\n'.join(lines)
JoinLines(lines) ==
    IF lines = <<>> THEN <<>>
    ELSE IF Len(lines) = 1 THEN lines[1]
    ELSE lines[1] \o <<"\n">> \o JoinLines(Tail(lines))

\* current_content[-10:] joined by newlines
LastTen(content) == JoinLines(PySlice(content, Max(Len(content) - 10, 0), Len(content)))

LoopStart ==
    [current_section |-> "", current_content |-> <<>>, competitors |-> <<>>,
     market_dynamics |-> <<>>, pipeline |-> <<>>, positioning |-> <<>>, catalysts |-> <<>>]

\* the if/elif chain that names the section or appends the line
Classify(st, line) ==
    IF SectionOf(line) # ""
    THEN [st EXCEPT !.current_section = SectionOf(line), !.current_content = <<>>]
    ELSE [st EXCEPT !.current_content = Append(@, line),
                    !.competitors = IF st.current_section = "competitors"
                                    THEN @ \o CompetitorOf(line) ELSE @]

\* Collect storing the joined lines even when there are none
CollectAlways(st) ==
    IF st.current_section \in {"market_dynamics", "pipeline", "positioning", "catalysts"}
    THEN [st EXCEPT ![st.current_section] = LastTen(st.current_content)]
    ELSE st

\* "Collect content for other sections"
Collect(st) ==
    IF st.current_content = <<>> THEN st
    ELSE IF st.current_section = "market_dynamics"
    THEN [st EXCEPT !.market_dynamics = LastTen(st.current_content)]
    ELSE IF st.current_section = "pipeline"
    THEN [st EXCEPT !.pipeline = LastTen(st.current_content)]
    ELSE IF st.current_section = "positioning"
    THEN [st EXCEPT !.positioning = LastTen(st.current_content)]
    ELSE IF st.current_section = "catalysts"
    THEN [st EXCEPT !.catalysts = LastTen(st.current_content)]
    ELSE st

\* one iteration of the loop over the lines
ScanLine(st, raw_line) ==
    LET line == Strip(raw_line)
    IN  IF line = <<>> THEN st ELSE Collect(Classify(st, line))

RECURSIVE ScanLines(_, _)

\* the loop over the lines, from the state st
ScanLines(st, lines) ==
    IF lines = <<>> THEN st ELSE ScanLines(ScanLine(st, Head(lines)), Tail(lines))

KnownCompanies == {"Pfizer"}

\* any(company in line.upper() for company in [...])
MentionsCompany(line) == Elems(line) \cap KnownCompanies # {}

Placeholder(line) ==
    [name |-> TakeChars(Strip(line), 30),
     products |-> <<"Multiple products in portfolio">>,
     market_share |-> 15,
     strengths |-> <<"Established pharmaceutical company">>,
     weaknesses |-> <<"High competition">>]

RECURSIVE SecondaryScanNoBreak(_, _, _)

\* SecondaryScan without the break
SecondaryScanNoBreak(lines, i, competitors) ==
    IF i > Len(lines) THEN [competitors |-> competitors, scanned |-> i - 1]
    ELSE SecondaryScanNoBreak(lines, i + 1,
            IF MentionsCompany(lines[i]) THEN Append(competitors, Placeholder(lines[i]))
            ELSE competitors)

RECURSIVE SecondaryScan(_, _, _)

\* The known-company-name loop from line i on: the entries collected and the
\* number of lines it has read when it ends.
SecondaryScan(lines, i, competitors) ==
    IF i > Len(lines) THEN [competitors |-> competitors, scanned |-> i - 1]
    ELSE LET found == IF MentionsCompany(lines[i])
                      THEN Append(competitors, Placeholder(lines[i]))
                      ELSE competitors
         IN  IF Len(found) >= 5 THEN [competitors |-> found, scanned |-> i]
             ELSE SecondaryScan(lines, i + 1, found)

\* "Ensure we have some competitors"
EnsureCompetitors(competitors, resp) ==
    IF competitors = <<>>
    THEN SecondaryScan(Split(resp, <<"\n">>), 1, <<>>).competitors
    ELSE competitors

\* CompetitiveAnalysis returning every competitor it has collected
CompetitiveAnalysisUncut(resp) ==
    LET st == ScanLines(LoopStart, Split(resp, <<"\n">>))
    IN  [competitors |-> EnsureCompetitors(st.competitors, resp),
         market_dynamics |-> IF st.market_dynamics = <<>>
                             THEN TakeChars(resp, 500) \o <<"...">>
                             ELSE st.market_dynamics,
         pipeline |-> IF st.pipeline = <<>>
                      THEN <<"Pipeline analysis included in full competitive analysis">>
                      ELSE st.pipeline,
         positioning |-> IF st.positioning = <<>>
                         THEN <<"Competitive positioning varies by therapeutic focus and market presence">>
                         ELSE st.positioning,
         catalysts |-> IF st.catalysts = <<>>
                       THEN <<"Key market catalysts and events detailed in comprehensive analysis">>
                       ELSE st.catalysts,
         full_analysis |-> resp]

\* generate_competitive_analysis once the model call has returned resp
CompetitiveAnalysis(resp) ==
    LET st == ScanLines(LoopStart, Split(resp, <<"\n">>))
    IN  [competitors |-> PySlice(EnsureCompetitors(st.competitors, resp), 0, 7),
         market_dynamics |-> IF st.market_dynamics = <<>>
                             THEN TakeChars(resp, 500) \o <<"...">>
                             ELSE st.market_dynamics,
         pipeline |-> IF st.pipeline = <<>>
                      THEN <<"Pipeline analysis included in full competitive analysis">>
                      ELSE st.pipeline,
         positioning |-> IF st.positioning = <<>>
                         THEN <<"Competitive positioning varies by therapeutic focus and market presence">>
                         ELSE st.positioning,
         catalysts |-> IF st.catalysts = <<>>
                       THEN <<"Key market catalysts and events detailed in comprehensive analysis">>
                       ELSE st.catalysts,
         full_analysis |-> resp]

\* generate_competitive_analysis when the model call raises e
CompetitiveError(e) ==
    [competitors |-> << [name |-> <<"Analysis Error">>, market_share |-> 0,
                         strengths |-> <<"Please try again">>, products |-> <<e>>] >>,
     market_dynamics |-> <<"Error generating analysis: ", e>>,
     pipeline |-> <<"Please regenerate analysis">>,
     positioning |-> <<"Error in analysis generation">>,
     catalysts |-> <<"Please try again with valid API key">>,
     full_analysis |-> <<"Error: ", e>>]

----------------------------------------------------------------------------
(* Chart builders.  A chart is the data of its traces; "raise" stands for   *)
(* the exception the builder ends with.                                    *)

Raise == [kind |-> "raise"]

\* float() accepts the text: one run of digits
FloatTokens == [a \in {"50", "100"} |-> IF a = "50" THEN 50 ELSE 100]

\* stage['stage'] and float(stage['percentage'].replace('%', '')) both succeed
StageCharts(stage) ==
    /\ stage.kind = "dict"
    /\ {"stage", "percentage"} \subseteq DOMAIN stage.items
    /\ stage.items["percentage"].kind = "str"
    /\ LET digits == Replace(stage.items["percentage"].text, <<"%">>)
       IN  Len(digits) = 1 /\ digits[1] \in DOMAIN FloatTokens

\* what "for stage in funnel_stages" goes through: the elements of a list, the
\* keys of a dict, the characters of a str; a number is not iterable
Iterated(value) ==
    CASE value.kind = "list" -> value.elems
      [] value.kind = "dict" ->
            LET keys == DOMAIN value.items
                order == CHOOSE f \in [1..Cardinality(keys) -> keys] :
                            \A i, j \in 1..Cardinality(keys) : i # j => f[i] # f[j]
            IN  [i \in 1..Cardinality(keys) |-> Str(<<order[i]>>)]
      [] value.kind = "str" -> [i \in 1..Len(value.text) |-> Str(<<value.text[i]>>)]

\* create_funnel_chart(funnel_stages)
create_funnel_chart(funnel_stages) ==
    LET stages == Iterated(funnel_stages)
    IN  IF funnel_stages.kind \notin {"list", "dict", "str"} THEN Raise
        ELSE IF \E i \in 1..Len(stages) : ~StageCharts(stages[i]) THEN Raise
        ELSE [kind |-> "funnel",
              y |-> [i \in 1..Len(stages) |-> stages[i].items["stage"].text],
              x |-> [i \in 1..Len(stages) |->
                        FloatTokens[Replace(stages[i].items["percentage"].text, <<"%">>)[1]]]]

\* bool(value) of a Python value
Truthy(value) ==
    CASE value.kind = "dict" -> DOMAIN value.items # {}
      [] value.kind = "list" -> value.elems # <<>>
      [] value.kind = "str" -> value.text # <<>>
      [] value.kind = "num" -> value.text # <<"0">>
      [] OTHER -> FALSE

\* colors.get(scenario, 'gray')
ScenarioColor(scenario) ==
    CASE scenario = "optimistic" -> "green"
      [] scenario = "realistic" -> "blue"
      [] scenario = "pessimistic" -> "red"
      [] OTHER -> "gray"

\* An entry of the scenario mapping is the record that the fallback of
\* generate_scenario_models builds, or a decoded JSON value.

\* 'projections' in entry
HasProjections(entry) ==
    IF "kind" \in DOMAIN entry
    THEN entry.kind = "dict" /\ "projections" \in DOMAIN entry.items
    ELSE "projections" \in DOMAIN entry

\* the test 'projections' in entry, the slice entry['projections'][:6] or
\* go.Scatter(y=projections) raises: the entry is a number, a list that
\* holds the word, or a dict whose projections are not a list
EntryRaises(entry) ==
    /\ "kind" \in DOMAIN entry
    /\ CASE entry.kind = "num" -> TRUE
         [] entry.kind = "list" ->
               \E i \in 1..Len(entry.elems) : entry.elems[i] = Str(<<"projections">>)
         [] entry.kind = "dict" ->
               /\ "projections" \in DOMAIN entry.items
               /\ entry.items["projections"].kind # "list"
         [] OTHER -> FALSE

\* entry['projections']
Projections(entry) ==
    IF "kind" \in DOMAIN entry THEN entry.items["projections"].elems ELSE entry.projections

\* ScenarioTrace without the [:6]
ScenarioTraceUncut(scenario, entry) ==
    [name |-> <<"title", scenario>>,
     x |-> [k \in 1..Min(Len(Projections(entry)), 6) |-> 2023 + k],
     y |-> Projections(entry),
     color |-> ScenarioColor(scenario)]

\* the trace of one scenario: its first 6 projections over the years from 2024
ScenarioTrace(scenario, entry) ==
    LET projections == PySlice(Projections(entry), 0, 6)
    IN  [name |-> <<"title", scenario>>,
         x |-> [k \in 1..Len(projections) |-> 2023 + k],
         y |-> projections,
         color |-> ScenarioColor(scenario)]

\* create_scenario_comparison_chart(scenario_models): None for a falsy
\* value, one trace for each scenario whose entry has projections
create_scenario_comparison_chart(scenario_models) ==
    IF ~Truthy(scenario_models) THEN None
    ELSE IF scenario_models.kind # "dict" THEN Raise
    ELSE IF \E sc \in DOMAIN scenario_models.items : EntryRaises(scenario_models.items[sc])
    THEN Raise
    ELSE [kind |-> "scenarios",
          traces |-> [sc \in {x \in DOMAIN scenario_models.items :
                                 HasProjections(scenario_models.items[x])} |->
                         ScenarioTrace(sc, scenario_models.items[sc])]]

\* create_market_analysis_chart(competitive_data)
create_market_analysis_chart(competitive_data) ==
    IF competitive_data = None \/ "competitors" \notin DOMAIN competitive_data THEN None
    ELSE LET competitors == PySlice(competitive_data.competitors, 0, 10)
         IN  [kind |-> "market",
              names |-> [i \in 1..Len(competitors) |-> competitors[i].name],
              values |-> [i \in 1..Len(competitors) |-> competitors[i].market_share]]

----------------------------------------------------------------------------
(* State shared by the specifications *)

NoHttp == [status |-> 0]

\* nothing stored, no request handled, no parser applied
Idle ==
    /\ therapy_analyses = <<>>
    /\ patient_flow_funnels = <<>>
    /\ clock = 0
    /\ http = NoHttp
    /\ scenarios = <<>>
    /\ result = None
    /\ op = "init"
    /\ inflight = <<>>
    /\ exported = <<>>

----------------------------------------------------------------------------
(* The request handlers *)

\* a call to the model service or the trials registry: it raises or returns
Failed == [ok |-> FALSE]

Returned(text) == [ok |-> TRUE, text |-> text]

\* HTTPException(status_code, detail), raised for the request
HttpError(request, status_code, detail) ==
    [request |-> request, status |-> status_code, detail |-> detail]

\* a handler's return value, sent with status 200
HttpOk(request, body) == [request |-> request, status |-> 200, body |-> body]

\* db.<collection>.find_one({field: value}): the first document, or None
FindOne(collection, field, value) ==
    IF \E i \in 1..Len(collection) : collection[i][field] = value
    THEN collection[CHOOSE i \in 1..Len(collection) :
                        /\ collection[i][field] = value
                        /\ \A j \in 1..(i - 1) : collection[j][field] # value]
    ELSE None

\* a fresh uuid4 for the n-th document of a collection
NewId(prefix, n) == <<prefix, n>>

\* search_regulatory_intelligence giving the text of the error, not {}, when
\* its call fails
RegulatoryUnabsorbed(call) ==
    IF call.ok THEN ParseRegulatoryResponse(call.text) ELSE Str(<<"e">>)

\* search_regulatory_intelligence
RegulatoryIntelligence(call) ==
    IF call.ok THEN ParseRegulatoryResponse(call.text) ELSE EmptyDict

\* generate_risk_assessment
RiskAssessment(call) ==
    IF call.ok THEN ParseRiskResponse(call.text) ELSE EmptyDict

\* generate_competitive_analysis
CompetitiveLandscape(call) ==
    IF call.ok THEN CompetitiveAnalysis(call.text) ELSE CompetitiveError("e")

\* search_clinical_trials: the studies, [] when the lookup fails
ClinicalTrials(call) == IF call.ok THEN call.text ELSE <<>>

\* generate_scenario_models
GenerateScenarios(scens, call) ==
    IF call.ok THEN ScenarioModels(scens, call.text) ELSE EmptyDict

\* analyze_therapy_area: the response and the document to insert (None when
\* the request fails).  created and updated are the two utcnow() defaults.
AnalyzeTherapy(request, n, main, trials, competitive, regulatory, risk, created, updated) ==
    IF ~main.ok
    THEN [http |-> HttpError(request, 500, <<"Analysis failed: ", "model call raised">>),
          doc |-> None]
    ELSE IF RegulatoryIntelligence(regulatory).kind # "dict"
    THEN [http |-> HttpError(request, 500, <<"Analysis failed: ", "validation error">>),
          doc |-> None]
    ELSE LET sections == ParseSections(main.text)
             analysis ==
                [id |-> NewId("analysis", n),
                 therapy_area |-> request.therapy_area,
                 product_name |-> None,
                 disease_summary |-> sections.disease_summary,
                 staging |-> sections.staging,
                 biomarkers |-> sections.biomarkers,
                 treatment_algorithm |-> sections.treatment_algorithm,
                 patient_journey |-> sections.patient_journey,
                 market_size_data |-> None,
                 competitive_landscape |-> CompetitiveLandscape(competitive),
                 regulatory_intelligence |-> RegulatoryIntelligence(regulatory),
                 clinical_trials_data |-> PySlice(ClinicalTrials(trials), 0, 10),
                 risk_assessment |-> RiskAssessment(risk),
                 created_at |-> created,
                 updated_at |-> updated]
         IN  [http |-> HttpOk(request, analysis), doc |-> analysis]

\* a str field of a pydantic model accepts the value; whether a number is
\* converted to a string depends on the installed pydantic (lax)
StrFieldValid(value, lax) == value.kind = "str" \/ (lax /\ value.kind = "num")

\* PatientFlowFunnel(...) accepts the parsed fields
FunnelFieldsValid(parsed_response, lax) ==
    LET funnel_stages == Get(parsed_response, "funnel_stages", List(<<>>))
    IN  /\ funnel_stages.kind = "list"
        /\ \A i \in 1..Len(funnel_stages.elems) : funnel_stages.elems[i].kind = "dict"
        /\ StrFieldValid(Get(parsed_response, "total_addressable_population", Str(<<>>)), lax)
        /\ StrFieldValid(Get(parsed_response, "forecasting_notes", Str(<<>>)), lax)

\* generate_patient_flow_funnel: the response, the document to insert (None
\* when the request fails) and parsed_response (None when it is not reached)
GenerateFunnel(request, n, main, scenario_call, lax, now) ==
    LET analysis == FindOne(therapy_analyses, "id", request.analysis_id)
        failed(cause) ==
            HttpError(request, 500, <<"Funnel generation failed: ", cause>>)
    IN  IF analysis = None
        THEN [http |-> failed("404: Analysis not found"), doc |-> None, parsed |-> None]
        ELSE IF ~main.ok
        THEN [http |-> failed("model call raised"), doc |-> None, parsed |-> None]
        ELSE LET parsed_response == ParseFunnelResponse(main.text)
                 scenario_models ==
                    GenerateScenarios(<<"optimistic", "realistic", "pessimistic">>, scenario_call)
                 funnel_chart ==
                    create_funnel_chart(Get(parsed_response, "funnel_stages", List(<<>>)))
                 scenario_chart == create_scenario_comparison_chart(scenario_models)
                 visualization_data ==
                    IF analysis.competitive_landscape # None
                    THEN [funnel_chart |-> funnel_chart,
                          scenario_chart |-> scenario_chart,
                          market_chart |->
                            create_market_analysis_chart(analysis.competitive_landscape)]
                    ELSE [funnel_chart |-> funnel_chart, scenario_chart |-> scenario_chart]
                 funnel ==
                    [id |-> NewId("funnel", n),
                     therapy_area |-> request.therapy_area,
                     analysis_id |-> request.analysis_id,
                     funnel_stages |-> Get(parsed_response, "funnel_stages", List(<<>>)),
                     total_addressable_population |->
                        Get(parsed_response, "total_addressable_population", Str(<<>>)),
                     forecasting_notes |-> Get(parsed_response, "forecasting_notes", Str(<<>>)),
                     scenario_models |-> scenario_models,
                     visualization_data |-> visualization_data,
                     created_at |-> now]
             IN  IF funnel_chart = Raise
                 THEN [http |-> failed("create_funnel_chart raised"), doc |-> None,
                       parsed |-> parsed_response]
                 ELSE IF scenario_chart = Raise
                 THEN [http |-> failed("create_scenario_comparison_chart raised"),
                       doc |-> None, parsed |-> parsed_response]
                 ELSE IF ~FunnelFieldsValid(parsed_response, lax)
                 THEN [http |-> failed("validation error"), doc |-> None,
                       parsed |-> parsed_response]
                 ELSE [http |-> HttpOk(request, funnel), doc |-> funnel,
                       parsed |-> parsed_response]

\* InsertOne taking the place of the documents stored for the same analysis
InsertOrReplace(collection, document) ==
    Append(SelectSeq(collection, LAMBDA d : d.analysis_id # document.analysis_id), document)

\* db.<collection>.insert_one(document): the document is added
InsertOne(collection, document) == Append(collection, document)

\* get_funnel_by_analysis: the response
FunnelByAnalysis(request) ==
    HttpOk(request, FindOne(patient_flow_funnels, "analysis_id", request.analysis_id))

\* get_analysis_details: the response
AnalysisDetails(request) ==
    IF FindOne(therapy_analyses, "id", request.analysis_id) = None
    THEN HttpError(request, 404, <<"Analysis not found">>)
    ELSE HttpOk(request,
                [analysis |-> FindOne(therapy_analyses, "id", request.analysis_id),
                 funnel |-> FindOne(patient_flow_funnels, "analysis_id", request.analysis_id)])

\* SetFields adding the fields the document lacks and replacing none
SetFieldsIfAbsent(doc, fields) ==
    [k \in DOMAIN doc \cup DOMAIN fields |-> IF k \in DOMAIN doc THEN doc[k] ELSE fields[k]]

\* {"$set": fields} applied to a document: the named fields are replaced or
\* added, every other field is kept
SetFields(doc, fields) ==
    [k \in DOMAIN doc \cup DOMAIN fields |-> IF k \in DOMAIN fields THEN fields[k] ELSE doc[k]]

\* db.<collection>.update_one({field: value}, {"$set": fields}): the first
\* matching document is updated, in one step
UpdateOne(collection, field, value, fields) ==
    [i \in 1..Len(collection) |->
        IF /\ collection[i][field] = value
           /\ \A j \in 1..(i - 1) : collection[j][field] # value
        THEN SetFields(collection[i], fields)
        ELSE collection[i]]

\* CompetitiveUpdate writing the epoch as updated_at instead of the clock
CompetitiveUpdateStale(competitive_data, clinical_trials, now) ==
    [competitive_landscape |-> competitive_data,
     clinical_trials_data |-> PySlice(clinical_trials, 0, 15),
     updated_at |-> 0]

\* generate_competitive_intel: the "$set" document of its update_one
CompetitiveUpdate(competitive_data, clinical_trials, now) ==
    [competitive_landscape |-> competitive_data,
     clinical_trials_data |-> PySlice(clinical_trials, 0, 15),
     updated_at |-> now]

\* generate_competitive_intel: the value it returns
CompetitiveResponse(competitive_data, clinical_trials, now) ==
    [status |-> "success",
     competitive_landscape |-> competitive_data,
     clinical_trials_count |-> Len(clinical_trials),
     updated_at |-> now]

\* generate_competitive_intel: the response and the "$set" document of its
\* update (None when no update is made).  updated and returned are its two
\* utcnow() readings.
CompetitiveIntel(request, competitive_data, clinical_trials, updated, returned) ==
    IF FindOne(therapy_analyses, "id", request.analysis_id) = None
    THEN [http |-> HttpError(request, 500,
                             <<"Competitive analysis failed: ", "404: Analysis not found">>),
          set |-> None]
    ELSE [http |-> HttpOk(request,
                          CompetitiveResponse(competitive_data, clinical_trials, returned)),
          set |-> CompetitiveUpdate(competitive_data, clinical_trials, updated)]

\* ScenarioUpdate writing the whole record anew, the fields it does not
\* generate with their defaults
ScenarioUpdateWhole(scenario_models, now) ==
    [scenario_models |-> scenario_models, updated_at |-> now,
     competitive_landscape |-> None, clinical_trials_data |-> <<>>]

\* generate_scenario_analysis: the "$set" document of its update_one
ScenarioUpdate(scenario_models, now) ==
    [scenario_models |-> scenario_models, updated_at |-> now]

\* generate_scenario_analysis: the response and the "$set" document of its
\* update (None when no update is made).  The chart is built after the
\* update, so a chart that raises leaves the update in place.
ScenarioAnalysis(request, scenario_models, updated, returned) ==
    IF FindOne(therapy_analyses, "id", request.analysis_id) = None
    THEN [http |-> HttpError(request, 500,
                             <<"Scenario modeling failed: ", "404: Analysis not found">>),
          set |-> None]
    ELSE LET visualization_chart == create_scenario_comparison_chart(scenario_models)
         IN  [http |-> IF visualization_chart = Raise
                       THEN HttpError(request, 500,
                                      <<"Scenario modeling failed: ",
                                        "create_scenario_comparison_chart raised">>)
                       ELSE HttpOk(request, [status |-> "success",
                                             scenario_models |-> scenario_models,
                                             visualization |-> visualization_chart,
                                             updated_at |-> returned]),
              set |-> ScenarioUpdate(scenario_models, updated)]

----------------------------------------------------------------------------
(* Exports.  A report is the list of its flowables, a workbook the list of  *)
(* its sheets; the encoded payload holds that content and the time of       *)
(* generation that the libraries embed in the file.                         *)

\* the keys of a dict in the order in which the dict holds them
RECURSIVE KeyOrder(_)
KeyOrder(keys) ==
    IF keys = {} THEN <<>>
    ELSE LET first == CHOOSE k \in keys : TRUE
         IN  <<first>> \o KeyOrder(keys \ {first})

\* document.get(field, ''), for a text field of a stored document
TextField(document, field) == IF field \in DOMAIN document THEN document[field] ELSE <<>>

Paragraph(text, style) == [flowable |-> "Paragraph", text |-> text, style |-> style]

Spacer(height) == [flowable |-> "Spacer", height |-> height]

\* therapy_area.replace(' ', '_')
Underscored(therapy_area) ==
    IF therapy_area = "lung cancer" THEN "lung_cancer" ELSE therapy_area

\* str.replace('_', ' ').title() of a risk type
RiskTitle(risk_type) == <<"title", risk_type>>

\* the flowables of one of the five key sections
SectionFlowables(section_title, content) ==
    IF content = <<>> THEN <<>>
    ELSE << Paragraph(<<section_title>>, "Heading3"),
            Paragraph(IF CharLen(content) > 1000
                      THEN TakeChars(content, 1000) \o <<"...">>
                      ELSE content, "Normal"),
            Spacer(12) >>

\* the flowables of the competitive landscape
CompetitiveFlowables(analysis) ==
    IF "competitive_landscape" \notin DOMAIN analysis \/ analysis.competitive_landscape = None
    THEN <<>>
    ELSE LET comp_data == analysis.competitive_landscape
             top == IF "competitors" \in DOMAIN comp_data
                    THEN PySlice(comp_data.competitors, 0, 5) ELSE <<>>
         IN  <<Paragraph(<<"Competitive Landscape">>, "Heading2")>>
             \o [i \in 1..Len(top) |->
                    Paragraph(<<"(bullet)", " ">> \o top[i].name \o <<":", " ">>
                              \o top[i].strengths, "Normal")]
             \o <<Spacer(20)>>

\* the flowables of the risk assessment
RiskFlowables(analysis) ==
    IF "risk_assessment" \notin DOMAIN analysis \/ ~Truthy(analysis.risk_assessment)
    THEN <<>>
    ELSE LET risk_data == analysis.risk_assessment.items
             order == KeyOrder(DOMAIN risk_data)
             levelled == SelectSeq(order, LAMBDA k : Has(risk_data[k], "level"))
         IN  <<Paragraph(<<"Risk Assessment">>, "Heading2")>>
             \o [i \in 1..Len(levelled) |->
                    Paragraph(<<"(bullet)", " ", RiskTitle(levelled[i]), ":", " ">>
                              \o risk_data[levelled[i]].items["level"].text, "Normal")]
             \o <<Spacer(20)>>

\* generate_pdf_report: the story handed to doc.build
PdfStory(analysis) ==
    << Paragraph(<<"Pharma Analysis Report: ", analysis.therapy_area>>, "CustomTitle"),
       Spacer(20),
       Paragraph(<<"Executive Summary">>, "Heading2"),
       Paragraph(TakeChars(TextField(analysis, "disease_summary"), 500) \o <<"...">>, "Normal"),
       Spacer(20) >>
    \o SectionFlowables("Disease Overview", TextField(analysis, "disease_summary"))
    \o SectionFlowables("Staging Information", TextField(analysis, "staging"))
    \o SectionFlowables("Biomarkers", TextField(analysis, "biomarkers"))
    \o SectionFlowables("Treatment Algorithm", TextField(analysis, "treatment_algorithm"))
    \o SectionFlowables("Patient Journey", TextField(analysis, "patient_journey"))
    \o CompetitiveFlowables(analysis)
    \o RiskFlowables(analysis)

\* generate_pdf_report printing the time of generation on the report
PdfReportDated(analysis, funnel, builds, now) ==
    IF builds
    THEN [content |-> PdfStory(analysis) \o <<Paragraph(<<"Generated at ", now>>, "Normal")>>,
          generated_at |-> now]
    ELSE None

\* generate_pdf_report(analysis, funnel): the encoded report, or None when
\* building it raises
generate_pdf_report(analysis, funnel, builds, now) ==
    IF builds THEN [content |-> PdfStory(analysis), generated_at |-> now] ELSE None

\* the "Analysis Summary" sheet
SummarySheet(analysis) ==
    [title |-> "Analysis Summary",
     rows |-> << <<<<"Therapy Area Analysis: ", analysis.therapy_area>>>>,
                 <<<<"Disease Summary">>, TakeChars(TextField(analysis, "disease_summary"), 500)>>,
                 <<<<"Key Biomarkers">>, TakeChars(TextField(analysis, "biomarkers"), 300)>>,
                 <<<<"Treatment Algorithm">>,
                   TakeChars(TextField(analysis, "treatment_algorithm"), 300)>> >>]

\* the "Patient Flow Funnel" sheet, for a funnel that has funnel_stages
FunnelSheet(funnel) ==
    [title |-> "Patient Flow Funnel",
     rows |-> << <<"Stage", "Percentage", "Description">> >>
              \o [i \in 1..Len(funnel.funnel_stages.elems) |->
                    << Get(funnel.funnel_stages.elems[i], "stage", Str(<<>>)),
                       Get(funnel.funnel_stages.elems[i], "percentage", Str(<<>>)),
                       Get(funnel.funnel_stages.elems[i], "description", Str(<<>>)) >>]]

\* the values that enumerate(data['projections'][:6]) goes through come
\* from a list or from the characters of a string
SheetProjections(entry) ==
    IF "kind" \in DOMAIN entry THEN Iterated(entry.items["projections"]) ELSE entry.projections

\* the "Scenario Models" sheet: one row for each scenario
ScenarioSheet(scenario_models) ==
    LET order == KeyOrder(DOMAIN scenario_models.items)
    IN  [title |-> "Scenario Models",
         rows |-> << <<"Scenario", "2024", "2025", "2026", "2027", "2028", "2029">> >>
                  \o [i \in 1..Len(order) |->
                        << <<"title", order[i]>> >>
                        \o (IF HasProjections(scenario_models.items[order[i]])
                            THEN PySlice(SheetProjections(scenario_models.items[order[i]]), 0, 6)
                            ELSE <<>>)]]

\* the scenario sheet raises: scenario_models is truthy and has no items(),
\* or one of its entries cannot be read
ScenarioSheetRaises(analysis) ==
    /\ "scenario_models" \in DOMAIN analysis
    /\ Truthy(analysis.scenario_models)
    /\ \/ analysis.scenario_models.kind # "dict"
       \/ \E sc \in DOMAIN analysis.scenario_models.items :
             /\ EntryRaises(analysis.scenario_models.items[sc])
             /\ ~(/\ HasProjections(analysis.scenario_models.items[sc])
                  /\ analysis.scenario_models.items[sc].items["projections"].kind = "str")

\* generate_excel_export: the sheets of the workbook
ExcelSheets(analysis, funnel) ==
    <<SummarySheet(analysis)>>
    \o (IF funnel # None /\ "funnel_stages" \in DOMAIN funnel
        THEN <<FunnelSheet(funnel)>> ELSE <<>>)
    \o (IF "scenario_models" \in DOMAIN analysis /\ Truthy(analysis.scenario_models)
        THEN <<ScenarioSheet(analysis.scenario_models)>> ELSE <<>>)

\* generate_excel_export(analysis, funnel): the encoded workbook, or None
\* when building it raises
generate_excel_export(analysis, funnel, builds, now) ==
    IF builds /\ ~ScenarioSheetRaises(analysis) THEN [content |-> ExcelSheets(analysis, funnel), generated_at |-> now] ELSE None

\* export_analysis: export_data, None when no generator is called.  builds
\* says whether the generator gets through; now is the time of generation.
ExportData(export_type, analysis, funnel, builds, now) ==
    IF export_type = "pdf"
    THEN generate_pdf_report(analysis, funnel, builds, now)
    ELSE IF export_type = "excel"
    THEN generate_excel_export(analysis, funnel, builds, now)
    ELSE None

\* Export answering with success without looking at export_data
ExportUnchecked(request, analysis, export_data) ==
    IF analysis = None
    THEN HttpError(request, 500, <<"Export failed: ", "404: Analysis not found">>)
    ELSE IF request.export_type \in {"pdf", "excel"}
    THEN HttpOk(request, [status |-> "success", export_type |-> request.export_type,
                          data |-> export_data,
                          filename |-> <<Underscored(analysis.therapy_area), "_export">>])
    ELSE HttpError(request, 500,
                   <<"Export failed: ", "400: Invalid export type or generation failed">>)

\* export_analysis: the response, for the analysis found and the export_data
\* generated
Export(request, analysis, export_data) ==
    IF analysis = None
    THEN HttpError(request, 500, <<"Export failed: ", "404: Analysis not found">>)
    ELSE IF request.export_type = "pdf" /\ export_data # None
    THEN HttpOk(request, [status |-> "success", export_type |-> "pdf",
                          data |-> export_data,
                          filename |-> <<Underscored(analysis.therapy_area), "_analysis.pdf">>])
    ELSE IF request.export_type = "excel" /\ export_data # None
    THEN HttpOk(request, [status |-> "success", export_type |-> "excel",
                          data |-> export_data,
                          filename |-> <<Underscored(analysis.therapy_area), "_model.xlsx">>])
    ELSE HttpError(request, 500,
                   <<"Export failed: ", "400: Invalid export type or generation failed">>)

\* get_therapy_analyses: the limit of to_list
ListLimit == 50

\* cursor.sort(key, -1) leaving the documents in the order of the collection
SortUnsorted(docs, key, reversed) == docs

RECURSIVE InsertInto(_, _, _, _)
\* doc put into a sequence sorted descending by key, among the documents of
\* equal key before them or, reversed, after them
InsertInto(doc, sorted, key, reversed) ==
    IF sorted = <<>> THEN <<doc>>
    ELSE IF doc[key] > Head(sorted)[key] \/ (~reversed /\ doc[key] = Head(sorted)[key])
    THEN <<doc>> \o sorted
    ELSE <<Head(sorted)>> \o InsertInto(doc, Tail(sorted), key, reversed)

RECURSIVE SortDescending(_, _, _)
\* cursor.sort(key, -1): the documents descending by key.  The database
\* does not say in which order documents of equal key come: they come in
\* the order of the collection or, reversed, in the opposite order.
SortDescending(docs, key, reversed) ==
    IF docs = <<>> THEN <<>>
    ELSE InsertInto(Head(docs), SortDescending(Tail(docs), key, reversed), key, reversed)

\* TherapyAreaAnalysis(**analysis) accepts the stored document
AnalysisFieldsValid(analysis) ==
    /\ analysis.regulatory_intelligence.kind = "dict"
    /\ "scenario_models" \in DOMAIN analysis =>
          analysis.scenario_models.kind \in {"none", "dict"}

\* get_therapy_analyses: the response
ListAnalyses(request, reversed) ==
    LET analyses == PySlice(SortDescending(therapy_analyses, "created_at", reversed),
                            0, ListLimit)
    IN  IF \A i \in 1..Len(analyses) : AnalysisFieldsValid(analyses[i])
        THEN HttpOk(request, analyses)
        ELSE HttpError(request, 500, <<"Internal Server Error">>)

----------------------------------------------------------------------------
(* SpecJson: the three embedded-JSON parsers applied to every raw text of  *)
(* at most MaxJsonLen tokens                                               *)

JsonAlphabet == {"{", "}", "k", "1", "w"}

InitJson ==
    /\ Idle
    /\ response \in SeqsUpTo(JsonAlphabet, MaxJsonLen)

ParseFunnel ==
    /\ op = "init"
    /\ result' = ParseFunnelResponse(response)
    /\ op' = "parse_funnel"
    /\ UNCHANGED <<store, clock, http, response, scenarios, inflight, exported>>

ParseRegulatory ==
    /\ op = "init"
    /\ result' = ParseRegulatoryResponse(response)
    /\ op' = "parse_regulatory"
    /\ UNCHANGED <<store, clock, http, response, scenarios, inflight, exported>>

ParseRisk ==
    /\ op = "init"
    /\ result' = ParseRiskResponse(response)
    /\ op' = "parse_risk"
    /\ UNCHANGED <<store, clock, http, response, scenarios, inflight, exported>>

NextJson == ParseFunnel \/ ParseRegulatory \/ ParseRisk

SpecJson == InitJson /\ [][NextJson]_vars

----------------------------------------------------------------------------
(* SpecSections: the delimited-section parser applied to every raw text of *)
(* at most MaxSectionLen characters                                        *)

SectionAlphabet == {"#", " ", "\n", "x"} \cup Elems(SectionTitles)

InitSections ==
    /\ Idle
    /\ response \in SeqsUpTo(SectionAlphabet, MaxSectionLen)

ParseAnalysis ==
    /\ op = "init"
    /\ result' = ParseSections(response)
    /\ op' = "parse_sections"
    /\ UNCHANGED <<store, clock, http, response, scenarios, inflight, exported>>

NextSections == ParseAnalysis

SpecSections == InitSections /\ [][NextSections]_vars

----------------------------------------------------------------------------
(* SpecScenario: generate_scenario_models for every scenario list of at     *)
(* most MaxScenarios names                                                 *)

ScenarioNames == {"pessimistic", "realistic", "optimistic", "base"}

ScenarioResponses == {<<"w">>, <<"{", "w">>, <<"{", "}">>}

InitScenario ==
    /\ therapy_analyses = <<>>
    /\ patient_flow_funnels = <<>>
    /\ clock = 0
    /\ http = NoHttp
    /\ result = None
    /\ op = "init"
    /\ inflight = <<>>
    /\ exported = <<>>
    /\ scenarios \in SeqsUpTo(ScenarioNames, MaxScenarios)
    /\ response \in ScenarioResponses

\* the model call returned: the response is decoded or the fallback built
GenerateScenarioModels ==
    /\ op = "init"
    /\ result' = ScenarioModels(scenarios, response)
    /\ op' = "scenario_models"
    /\ UNCHANGED <<store, clock, http, response, scenarios, inflight, exported>>

\* the model call raised: the outer handler returns an empty dict
GenerateScenarioModelsFails ==
    /\ op = "init"
    /\ result' = EmptyDict
    /\ op' = "scenario_models_failed"
    /\ UNCHANGED <<store, clock, http, response, scenarios, inflight, exported>>

NextScenario == GenerateScenarioModels \/ GenerateScenarioModelsFails

SpecScenario == InitScenario /\ [][NextScenario]_vars

----------------------------------------------------------------------------
(* SpecCompetitive: generate_competitive_analysis for every text of at most *)
(* MaxLines lines of the first pool, and every text of at most             *)
(* MaxCompanyLines lines of the second                                     *)

HeaderLine == <<"MAJOR", " ", "COMPETITORS">>

AcmeLine == <<"1.", " ", "Acme", " ", "Corp", ":", " ", "30", "%", " ", "share", ",",
              " ", "strong", " ", "pipeline">>

AcmeShareLine == <<"2.", " ", "Acme", " ", "Corp", ":", " ", "30", "%", " ", "share">>

BetaLine == <<"4.", " ", "Beta", " ", "Inc", ":", " ", "12", "%", " ", "share">>

PfizerLine == <<"-", " ", "Pfizer", ":", " ", "market", " ", "leader">>

HyphenLine == <<"-", " ", "Bristol", "-", "Myers", ":", " ", "10", "%">>

ShortLine == <<"3.", " ", "AB", ":", " ", "5", "%">>

DynamicsLine == <<"MARKET", " ", "DYNAMICS">>

GrowthLine == <<"growth">>

MentionLine == <<"Pfizer", " ", "leads">>

BlankLine == <<" ">>

LinePool == {HeaderLine, AcmeLine, AcmeShareLine, BetaLine, PfizerLine, HyphenLine,
             ShortLine, DynamicsLine, GrowthLine, MentionLine, BlankLine}

CompanyLinePool == {PfizerLine, MentionLine, GrowthLine}

MaxContentLines == 12

\* a market-dynamics section of n content lines
LongSection(n) ==
    <<DynamicsLine>> \o [i \in 1..n |-> IF i = 1 THEN PfizerLine
                                         ELSE IF i % 2 = 0 THEN GrowthLine ELSE MentionLine]

MaxCompetitorLines == 8

\* a competitors section of n competitor lines
ManyCompetitors(n) ==
    <<HeaderLine>> \o [i \in 1..n |-> IF i % 3 = 1 THEN PfizerLine
                                       ELSE IF i % 3 = 2 THEN AcmeShareLine ELSE HyphenLine]

InitCompetitive ==
    /\ Idle
    /\ response \in {JoinLines(ls) : ls \in SeqsUpTo(LinePool, MaxLines)
                                        \cup SeqsUpTo(CompanyLinePool, MaxCompanyLines)
                                        \cup {LongSection(n) : n \in 0..MaxContentLines}
                                        \cup {ManyCompetitors(n) : n \in 0..MaxCompetitorLines}}

\* the model call returned: the text is parsed
AnalyzeCompetitors ==
    /\ op = "init"
    /\ result' = CompetitiveAnalysis(response)
    /\ op' = "competitive"
    /\ UNCHANGED <<store, clock, http, response, scenarios, inflight, exported>>

\* the model call raised: the error record is returned
AnalyzeCompetitorsFails ==
    /\ op = "init"
    /\ result' = CompetitiveError("e")
    /\ op' = "competitive_failed"
    /\ UNCHANGED <<store, clock, http, response, scenarios, inflight, exported>>

NextCompetitive == AnalyzeCompetitors \/ AnalyzeCompetitorsFails

SpecCompetitive == InitCompetitive /\ [][NextCompetitive]_vars

----------------------------------------------------------------------------
(* Spec: requests handled one after the other, on a store that starts empty *)

TherapyAreas == {"nsclc"}

SectionedResponse == <<"#", "#", " ", "DISEASE SUMMARY", "\n", "x">>

AnalysisCalls == {Failed, Returned(SectionedResponse)}

\* the secondary generators that fail during one analysis
SecondaryOutcomes == {{}, {"trials", "competitive", "regulatory", "risk"}}

\* what a secondary generator's call gives when it does not fail
SecondaryCall(generator, failing) ==
    IF generator \in failing THEN Failed
    ELSE IF generator = "trials" THEN Returned(<<"NCT1">>)
    ELSE IF generator = "competitive" THEN Returned(JoinLines(<<HeaderLine, AcmeShareLine>>))
    ELSE Returned(<<"w">>)

ProseResponse == <<"w">>

EmptyObjectResponse == <<"w", "{", "}", "w">>

StagesResponse == <<"w", "{", "funnel_stages", "[", "{", "stage", "s", ",", "percentage",
                    "50%", "}", "]", ",", "forecasting_notes", "s", "}">>

FunnelCalls == {Failed} \cup {Returned(r) : r \in {ProseResponse, EmptyObjectResponse,
                                                     StagesResponse}}

ScenarioCalls == {Failed, Returned(<<"w">>)}

RequestIds == {NewId("analysis", n) : n \in 1..(MaxAnalyses + 1)}

\* the clock readings a handler may get next
Ticks(from) == from..Min(from + 1, MaxClock)

Init ==
    /\ Idle
    /\ response = <<>>

\* POST /analyze-therapy, while fewer than limit analyses are stored, the
\* main call and the secondary generators behaving as mains and failings say
AnalyzeTherapyWith(limit, mains, failings) ==
    \E area \in TherapyAreas, main \in mains, failing \in failings,
       created \in Ticks(clock) :
      \E updated \in Ticks(created) :
        LET request == [path |-> "/analyze-therapy", therapy_area |-> area]
            out == AnalyzeTherapy(request, Len(therapy_analyses) + 1, main,
                                  SecondaryCall("trials", failing),
                                  SecondaryCall("competitive", failing),
                                  SecondaryCall("regulatory", failing),
                                  SecondaryCall("risk", failing), created, updated)
        IN  /\ out.doc # None => Len(therapy_analyses) < limit
            /\ therapy_analyses' = IF out.doc # None THEN Append(therapy_analyses, out.doc)
                                   ELSE therapy_analyses
            /\ http' = out.http
            /\ clock' = IF out.doc # None THEN updated ELSE clock
            /\ response' = IF main.ok THEN main.text ELSE <<>>
            /\ result' = IF main.ok THEN ParseSections(main.text) ELSE None
            /\ op' = "analyze_therapy"
            /\ exported' = IF out.doc # None THEN <<>> ELSE exported
            /\ UNCHANGED <<patient_flow_funnels, scenarios, inflight>>

\* POST /analyze-therapy
AnalyzeTherapyArea == AnalyzeTherapyWith(MaxAnalyses, AnalysisCalls, SecondaryOutcomes)

\* POST /generate-funnel, while fewer than limit funnels are stored, the
\* main call and the scenario call behaving as mains and scenario_calls say
GenerateFunnelWith(limit, mains, scenario_calls) ==
    \E area \in TherapyAreas, id \in RequestIds, main \in mains,
       scenario_call \in scenario_calls, lax \in BOOLEAN, now \in Ticks(clock) :
        LET request == [path |-> "/generate-funnel", therapy_area |-> area, analysis_id |-> id]
            out == GenerateFunnel(request, Len(patient_flow_funnels) + 1, main,
                                  scenario_call, lax, now)
        IN  /\ out.doc # None => Len(patient_flow_funnels) < limit
            /\ patient_flow_funnels' = IF out.doc # None
                                       THEN InsertOne(patient_flow_funnels, out.doc)
                                       ELSE patient_flow_funnels
            /\ http' = out.http
            /\ clock' = IF out.doc # None THEN now ELSE clock
            /\ response' = IF out.parsed # None THEN main.text ELSE <<>>
            /\ result' = out.parsed
            /\ op' = "generate_funnel"
            /\ exported' = IF out.doc # None THEN <<>> ELSE exported
            /\ UNCHANGED <<therapy_analyses, scenarios, inflight>>

\* POST /generate-funnel
GeneratePatientFlowFunnel == GenerateFunnelWith(MaxFunnels, FunnelCalls, ScenarioCalls)

Next == AnalyzeTherapyArea \/ GeneratePatientFlowFunnel

Spec == Init /\ [][Next]_vars

----------------------------------------------------------------------------
(* SpecRace: two competitive-analysis requests for the same stored analysis, *)
(* interleaved at their awaits                                              *)

RaceRequests == {"first", "second"}

AllSecondary == {"trials", "competitive", "regulatory", "risk"}

\* the analysis that an earlier analyze-therapy request stored
StoredAnalysis ==
    AnalyzeTherapy([path |-> "/analyze-therapy", therapy_area |-> "nsclc"], 1,
                   Returned(SectionedResponse),
                   SecondaryCall("trials", AllSecondary),
                   SecondaryCall("competitive", AllSecondary),
                   SecondaryCall("regulatory", AllSecondary),
                   SecondaryCall("risk", AllSecondary), 0, 0).doc

CompetitiveCalls == {Failed, Returned(JoinLines(<<HeaderLine, AcmeShareLine>>))}

TrialCalls == {Failed, Returned(<<"NCT1">>)}

InitRace ==
    /\ therapy_analyses = <<StoredAnalysis>>
    /\ patient_flow_funnels = <<>>
    /\ clock = 0
    /\ http = NoHttp
    /\ response = <<>>
    /\ scenarios = <<>>
    /\ result = None
    /\ op = "init"
    /\ exported = <<>>
    /\ inflight = [r \in RaceRequests |->
                      [pc |-> "find_one",
                       request |-> [path |-> "/competitive-analysis", therapy_area |-> "nsclc",
                                    analysis_id |-> NewId("analysis", 1)]]]

\* request r is at the await named pc
At(r, pc) == inflight[r].pc = pc

\* request r goes on with the locals it has, and the new ones
Goes(r, locals) ==
    inflight' = [inflight EXCEPT ![r] =
                    [k \in DOMAIN inflight[r] \cup DOMAIN locals |->
                        IF k \in DOMAIN locals THEN locals[k] ELSE inflight[r][k]]]

\* await db.therapy_analyses.find_one(...) returns
IntelFind(r) ==
    /\ At(r, "find_one")
    /\ IF FindOne(therapy_analyses, "id", inflight[r].request.analysis_id) = None
       THEN /\ Goes(r, [pc |-> "done"])
            /\ http' = HttpError(inflight[r].request, 500,
                                 <<"Competitive analysis failed: ", "404: Analysis not found">>)
       ELSE /\ Goes(r, [pc |-> "competitive"])
            /\ http' = http
    /\ op' = "find_one"
    /\ UNCHANGED <<store, clock, response, scenarios, result, exported>>

\* await generate_competitive_analysis(...) returns
IntelCompetitive(r) ==
    /\ At(r, "competitive")
    /\ \E call \in CompetitiveCalls :
          Goes(r, [pc |-> "trials", competitive_data |-> CompetitiveLandscape(call)])
    /\ op' = "generate_competitive_analysis"
    /\ UNCHANGED <<store, clock, http, response, scenarios, result, exported>>

\* await search_clinical_trials(...) returns
IntelTrials(r) ==
    /\ At(r, "trials")
    /\ \E call \in TrialCalls :
          Goes(r, [pc |-> "build", clinical_trials |-> ClinicalTrials(call)])
    /\ op' = "search_clinical_trials"
    /\ UNCHANGED <<store, clock, http, response, scenarios, result, exported>>

\* the "$set" document is built, with utcnow(), and update_one is called
IntelBuild(r) ==
    /\ At(r, "build")
    /\ \E now \in Ticks(clock) :
          /\ Goes(r, [pc |-> "update_one", built_at |-> now,
                      set |-> CompetitiveUpdate(inflight[r].competitive_data,
                                                inflight[r].clinical_trials, now)])
          /\ clock' = now
    /\ op' = "build"
    /\ UNCHANGED <<store, http, response, scenarios, result, exported>>

\* the store applies the update of r, and update_one returns
IntelApply(r) ==
    /\ At(r, "update_one")
    /\ therapy_analyses' = UpdateOne(therapy_analyses, "id", inflight[r].request.analysis_id,
                                     inflight[r].set)
    /\ Goes(r, [pc |-> "respond"])
    /\ result' = [applied |-> r]
    /\ op' = "update_one"
    /\ exported' = <<>>
    /\ UNCHANGED <<patient_flow_funnels, clock, http, response, scenarios>>

\* the handler returns
IntelRespond(r) ==
    /\ At(r, "respond")
    /\ \E now \in Ticks(clock) :
          /\ http' = HttpOk(inflight[r].request,
                            CompetitiveResponse(inflight[r].competitive_data,
                                                inflight[r].clinical_trials, now))
          /\ clock' = now
    /\ Goes(r, [pc |-> "done"])
    /\ op' = "competitive_intel"
    /\ UNCHANGED <<store, response, scenarios, result, exported>>

NextRace ==
    \E r \in RaceRequests :
        \/ IntelFind(r)
        \/ IntelCompetitive(r)
        \/ IntelTrials(r)
        \/ IntelBuild(r)
        \/ IntelApply(r)
        \/ IntelRespond(r)

SpecRace == InitRace /\ [][NextRace]_vars

----------------------------------------------------------------------------
(* SpecUpdates: analyses created and then updated, one request after the    *)
(* other                                                                    *)

ScenarioLists == {<<"optimistic", "realistic", "pessimistic">>, <<"base">>}

\* what generate_competitive_analysis returns for each outcome of its call
CompetitiveOutcome == [call \in CompetitiveCalls |-> CompetitiveLandscape(call)]

\* what search_clinical_trials returns for each outcome of its call
TrialOutcome == [call \in TrialCalls |-> ClinicalTrials(call)]

\* what generate_scenario_models returns for each scenario list and each
\* outcome of its call
ScenarioOutcome ==
    [scens \in ScenarioLists |-> [call \in ScenarioCalls |-> GenerateScenarios(scens, call)]]

\* POST /analyze-therapy, the secondary generators all failing
CreateAnalysis ==
    AnalyzeTherapyWith(MaxAnalyses, {Failed, Returned(SectionedResponse)}, {AllSecondary})

\* POST /competitive-analysis, the two generators' calls behaving as
\* competitives and searches say
CompetitiveIntelWith(competitives, searches) ==
    \E area \in TherapyAreas, id \in RequestIds, competitive \in competitives,
       trials \in searches, updated \in Ticks(clock) :
      \E returned \in Ticks(updated) :
        LET request == [path |-> "/competitive-analysis", therapy_area |-> area,
                        analysis_id |-> id]
            out == CompetitiveIntel(request, CompetitiveOutcome[competitive],
                                    TrialOutcome[trials], updated, returned)
        IN  /\ therapy_analyses' = IF out.set # None
                                   THEN UpdateOne(therapy_analyses, "id", id, out.set)
                                   ELSE therapy_analyses
            /\ http' = out.http
            /\ clock' = IF out.set # None THEN returned ELSE clock
            /\ response' = IF out.set # None /\ competitive.ok THEN competitive.text ELSE <<>>
            /\ result' = out.set
            /\ op' = "competitive_intel"
            /\ exported' = IF out.set # None THEN <<>> ELSE exported
            /\ UNCHANGED <<patient_flow_funnels, scenarios, inflight>>

\* POST /competitive-analysis
GenerateCompetitiveIntel == CompetitiveIntelWith(CompetitiveCalls, TrialCalls)

\* POST /scenario-modeling
GenerateScenarioAnalysis ==
    \E area \in TherapyAreas, id \in RequestIds, scens \in ScenarioLists,
       call \in ScenarioCalls, updated \in Ticks(clock) :
      \E returned \in Ticks(updated) :
        LET request == [path |-> "/scenario-modeling", therapy_area |-> area,
                        analysis_id |-> id, scenarios |-> scens]
            out == ScenarioAnalysis(request, ScenarioOutcome[scens][call], updated, returned)
        IN  /\ therapy_analyses' = IF out.set # None
                                   THEN UpdateOne(therapy_analyses, "id", id, out.set)
                                   ELSE therapy_analyses
            /\ http' = out.http
            /\ clock' = IF out.set # None THEN returned ELSE clock
            /\ response' = IF out.set # None /\ call.ok THEN call.text ELSE <<>>
            /\ result' = out.set
            /\ scenarios' = scens
            /\ op' = "scenario_analysis"
            /\ exported' = IF out.set # None THEN <<>> ELSE exported
            /\ UNCHANGED <<patient_flow_funnels, inflight>>

InitUpdates ==
    /\ Idle
    /\ response = <<>>

NextUpdates == CreateAnalysis \/ GenerateCompetitiveIntel \/ GenerateScenarioAnalysis

SpecUpdates == InitUpdates /\ [][NextUpdates]_vars

----------------------------------------------------------------------------
(* SpecCross: a competitive-analysis request and a scenario-modeling       *)
(* request for the same stored analysis, interleaved at their awaits       *)

InitCross ==
    /\ therapy_analyses = <<StoredAnalysis>>
    /\ patient_flow_funnels = <<>>
    /\ clock = 0
    /\ http = NoHttp
    /\ response = <<>>
    /\ scenarios = <<>>
    /\ result = None
    /\ op = "init"
    /\ exported = <<>>
    /\ inflight = [competitive |->
                      [pc |-> "find_one",
                       request |-> [path |-> "/competitive-analysis", therapy_area |-> "nsclc",
                                    analysis_id |-> NewId("analysis", 1)]],
                   scenario |->
                      [pc |-> "find_one",
                       request |-> [path |-> "/scenario-modeling", therapy_area |-> "nsclc",
                                    analysis_id |-> NewId("analysis", 1),
                                    scenarios |-> <<"optimistic", "realistic", "pessimistic">>]]]

\* await db.therapy_analyses.find_one(...) returns to the scenario request
ScenarioFind(r) ==
    /\ At(r, "find_one")
    /\ IF FindOne(therapy_analyses, "id", inflight[r].request.analysis_id) = None
       THEN /\ Goes(r, [pc |-> "done"])
            /\ http' = HttpError(inflight[r].request, 500,
                                 <<"Scenario modeling failed: ", "404: Analysis not found">>)
       ELSE /\ Goes(r, [pc |-> "scenario_models"])
            /\ http' = http
    /\ op' = "find_one"
    /\ UNCHANGED <<store, clock, response, scenarios, result, exported>>

\* await generate_scenario_models(...) returns; the "$set" document is
\* built, with utcnow(), and update_one is called
ScenarioGenerate(r) ==
    /\ At(r, "scenario_models")
    /\ \E call \in ScenarioCalls, now \in Ticks(clock) :
          /\ Goes(r, [pc |-> "update_one", built_at |-> now,
                      scenario_models |-> ScenarioOutcome[inflight[r].request.scenarios][call],
                      set |-> ScenarioUpdate(
                                 ScenarioOutcome[inflight[r].request.scenarios][call], now)])
          /\ clock' = now
    /\ op' = "generate_scenario_models"
    /\ UNCHANGED <<store, http, response, scenarios, result, exported>>

\* the chart is built and the handler returns
ScenarioRespond(r) ==
    /\ At(r, "respond")
    /\ \E now \in Ticks(clock) :
          /\ http' = ScenarioAnalysis(inflight[r].request, inflight[r].scenario_models,
                                      inflight[r].built_at, now).http
          /\ clock' = now
    /\ Goes(r, [pc |-> "done"])
    /\ op' = "scenario_analysis"
    /\ UNCHANGED <<store, response, scenarios, result, exported>>

NextCross ==
    \/ IntelFind("competitive")
    \/ IntelCompetitive("competitive")
    \/ IntelTrials("competitive")
    \/ IntelBuild("competitive")
    \/ IntelApply("competitive")
    \/ IntelRespond("competitive")
    \/ ScenarioFind("scenario")
    \/ ScenarioGenerate("scenario")
    \/ IntelApply("scenario")
    \/ ScenarioRespond("scenario")

SpecCross == InitCross /\ [][NextCross]_vars

----------------------------------------------------------------------------
(* SpecFunnels: generate-funnel requests and fetches, on a store that      *)
(* holds one analysis                                                      *)

MaxStoredFunnels == 3

InitFunnels ==
    /\ therapy_analyses = <<StoredAnalysis>>
    /\ patient_flow_funnels = <<>>
    /\ clock = 0
    /\ http = NoHttp
    /\ response = <<>>
    /\ scenarios = <<>>
    /\ result = None
    /\ op = "init"
    /\ inflight = <<>>
    /\ exported = <<>>

\* POST /generate-funnel
StoreFunnel ==
    GenerateFunnelWith(MaxStoredFunnels,
                       {Failed, Returned(EmptyObjectResponse), Returned(StagesResponse)},
                       {Returned(<<"w">>)})

\* GET /funnels/{analysis_id}
GetFunnelByAnalysis ==
    \E id \in RequestIds :
        /\ http' = FunnelByAnalysis([path |-> "/funnels", analysis_id |-> id])
        /\ op' = "get_funnel"
        /\ result' = None
        /\ UNCHANGED <<store, clock, response, scenarios, inflight, exported>>

\* GET /analysis/{analysis_id}
GetAnalysisDetails ==
    \E id \in RequestIds :
        /\ http' = AnalysisDetails([path |-> "/analysis", analysis_id |-> id])
        /\ op' = "get_analysis"
        /\ result' = None
        /\ UNCHANGED <<store, clock, response, scenarios, inflight, exported>>

NextFunnels == StoreFunnel \/ GetFunnelByAnalysis \/ GetAnalysisDetails

SpecFunnels == InitFunnels /\ [][NextFunnels]_vars

----------------------------------------------------------------------------
(* SpecExport: exports of a stored analysis, with updates in between *)

\* a text of 550 characters
LongText == [i \in 1..50 |-> "COMPETITORS"]

\* an analysis stored by an analyze-therapy request whose generators all
\* returned, and then given scenario models by a scenario-modeling request
ReportedAnalysis ==
    SetFields(AnalyzeTherapy([path |-> "/analyze-therapy", therapy_area |-> "lung cancer"], 1,
                             Returned(<<"#", "#", " ", "DISEASE SUMMARY", "\n">> \o LongText),
                             SecondaryCall("trials", {}),
                             SecondaryCall("competitive", {}),
                             SecondaryCall("regulatory", {}),
                             SecondaryCall("risk", {}), 0, 0).doc,
              ScenarioUpdate(GenerateScenarios(<<"optimistic", "realistic", "pessimistic">>,
                                               Returned(<<"w">>)), 0))

\* the funnels that generate-funnel requests for the stored analysis stored
StoredFunnels ==
    LET request == [path |-> "/generate-funnel", therapy_area |-> "nsclc",
                    analysis_id |-> NewId("analysis", 1)]
    IN  IF therapy_analyses = <<>> THEN {<<>>}
        ELSE {<<>>, <<GenerateFunnel(request, 1, Returned(StagesResponse), Failed, FALSE, 0).doc>>}

ExportTypes == {"pdf", "excel", "pptx"}

InitExport ==
    /\ therapy_analyses \in {<<>>, <<StoredAnalysis>>, <<ReportedAnalysis>>}
    /\ patient_flow_funnels \in StoredFunnels
    /\ clock = 0
    /\ http = NoHttp
    /\ response = <<>>
    /\ scenarios = <<>>
    /\ result = None
    /\ op = "init"
    /\ inflight = <<>>
    /\ exported = <<>>

\* POST /export
ExportAnalysis ==
    \E id \in RequestIds, export_type \in ExportTypes, builds \in BOOLEAN,
       now \in Ticks(clock) :
      \E analysis \in {FindOne(therapy_analyses, "id", id)} :
        \E export_data \in {IF analysis = None THEN None
                             ELSE ExportData(export_type, analysis,
                                             FindOne(patient_flow_funnels, "analysis_id", id),
                                             builds, now)} :
          \E out \in {Export([path |-> "/export", analysis_id |-> id,
                              export_type |-> export_type], analysis, export_data)} :
            /\ out.status = 200 => Len(exported) < MaxExports
            /\ http' = out
            /\ exported' = IF out.status = 200 THEN Append(exported, out) ELSE exported
            /\ clock' = now
            /\ result' = export_data
            /\ op' = "export"
            /\ UNCHANGED <<store, response, scenarios, inflight>>

\* POST /competitive-analysis, both generators failing
UpdateAnalysis == CompetitiveIntelWith({Failed}, {Failed})

NextExport == ExportAnalysis \/ UpdateAnalysis

SpecExport == InitExport /\ [][NextExport]_vars

----------------------------------------------------------------------------
(* SpecList: analyze-therapy requests that succeed, and GET /analyses      *)

MaxListed == 51

\* POST /analyze-therapy, succeeding
StoreAnalysis == AnalyzeTherapyWith(MaxListed, {Returned(SectionedResponse)}, {AllSecondary})

\* GET /analyses
GetTherapyAnalyses ==
    \E reversed \in BOOLEAN :
        /\ http' = ListAnalyses([path |-> "/analyses"], reversed)
        /\ op' = "list_analyses"
        /\ result' = None
        /\ UNCHANGED <<store, clock, response, scenarios, inflight, exported>>

InitList == Init

NextList == StoreAnalysis \/ GetTherapyAnalyses

SpecList == InitList /\ [][NextList]_vars

----------------------------------------------------------------------------
(* SpecChart: create_scenario_comparison_chart for the scenario mappings   *)
(* of at most four scenarios, and for values that are not mappings         *)

MaxPoints == 7

\* projections of n points
Points(n) == List([k \in 1..n |-> IF k = 1 THEN Num(<<"0">>)
                                 ELSE IF k = n THEN Num(<<"100">>) ELSE Num(<<"50">>)])

EntryKinds == {"fallback", "long", "short", "unprojected", "number"}

\* an entry of each kind: the one the fallback builds, decoded ones with
\* MaxPoints and with 2 projections, one without projections, and a number
EntryOf(scenario, kind) ==
    CASE kind = "fallback" -> ScenarioEntry(scenario, 0, <<"w">>)
      [] kind = "long" -> Dict([projections |-> Points(MaxPoints)])
      [] kind = "short" -> Dict([projections |-> Points(2)])
      [] kind = "unprojected" -> Dict([peak_sales |-> Num(<<"50">>)])
      [] OTHER -> Num(<<"50">>)

InitChart ==
    /\ therapy_analyses = <<>>
    /\ patient_flow_funnels = <<>>
    /\ clock = 0
    /\ http = NoHttp
    /\ response = <<>>
    /\ scenarios = <<>>
    /\ op = "init"
    /\ inflight = <<>>
    /\ exported = <<>>
    /\ \/ \E names \in SUBSET ScenarioNames :
            \E kinds \in [names -> EntryKinds] :
                result = Dict([sc \in names |-> EntryOf(sc, kinds[sc])])
       \/ result = List(<<>>)
       \/ result = List(<<Num(<<"50">>)>>)

\* the chart of the scenario models is built
CreateScenarioChart ==
    /\ op = "init"
    /\ result' = [scenario_models |-> result,
                  chart |-> create_scenario_comparison_chart(result)]
    /\ op' = "scenario_chart"
    /\ UNCHANGED <<store, clock, http, response, scenarios, inflight, exported>>

NextChart == CreateScenarioChart

SpecChart == InitChart /\ [][NextChart]_vars

----------------------------------------------------------------------------
(* SpecAnalyze: analyze-therapy requests in which the main call and each   *)
(* of the four secondary generators fails or returns                       *)

\* POST /analyze-therapy
AnalyzeWithFailures ==
    AnalyzeTherapyWith(MaxAnalyses, AnalysisCalls \cup {Returned(ProseResponse)},
                       SUBSET AllSecondary)

InitAnalyze == Init

NextAnalyze == AnalyzeWithFailures

SpecAnalyze == InitAnalyze /\ [][NextAnalyze]_vars

----------------------------------------------------------------------------
(* Claims about the request handlers (Spec) *)

\* the step is a funnel-generation request for an analysis id that is not stored
FunnelRequestForMissingAnalysis ==
    /\ op' = "generate_funnel"
    /\ FindOne(therapy_analyses, "id", http'.request.analysis_id) = None

\* C1: whenever no analysis with the requested analysis_id is stored,
\* generate_patient_flow_funnel answers with the not-found (404) error, not
\* the generic 500, and writes no funnel record.
C1_MissingAnalysisIsNotFound ==
    [][FunnelRequestForMissingAnalysis =>
          /\ http'.status = 404
          /\ patient_flow_funnels' = patient_flow_funnels]_vars

\* the step is a funnel-generation request for a stored analysis in which the
\* model returned a text with no decodable JSON object
FunnelRequestWithUndecodableResponse ==
    /\ op' = "generate_funnel"
    /\ FindOne(therapy_analyses, "id", http'.request.analysis_id) # None
    /\ result' # None
    /\ ~JsonValid(FunnelJsonStr(response'))

\* C2: in funnel generation for an existing analysis, a model response with
\* no decodable JSON object surfaces no error: the parse is the fixed
\* fallback, the request succeeds, and exactly one funnel record built from
\* the fallback is stored and returned.
C2_UndecodableResponseStillSucceeds ==
    [][FunnelRequestWithUndecodableResponse =>
          /\ result' = FunnelFallback(response')
          /\ http'.status = 200
          /\ http'.body.funnel_stages = FunnelFallback(response').items["funnel_stages"]
          /\ http'.body.forecasting_notes = FunnelFallback(response').items["forecasting_notes"]
          /\ patient_flow_funnels' = Append(patient_flow_funnels, http'.body)]_vars

----------------------------------------------------------------------------
(* Claims about concurrent requests (SpecRace) *)

BothDone == \A r \in RaceRequests : At(r, "done")

\* the stored analysis carries the three fields that request r generated
CarriesUpdateOf(r) ==
    /\ therapy_analyses[1].competitive_landscape = inflight[r].competitive_data
    /\ therapy_analyses[1].clinical_trials_data = PySlice(inflight[r].clinical_trials, 0, 15)
    /\ therapy_analyses[1].updated_at = inflight[r].built_at

\* C11: for two concurrent competitive-analysis requests on the same stored
\* analysis, in every interleaving, once both have completed the stored
\* competitive_landscape, clinical_trials_data and updated_at all come from
\* the request whose update the store applied last.
C11_LastWriteWinsUnmixed == BothDone => CarriesUpdateOf(result.applied)

\* both completed with different generated data and different clock
\* readings, and the update applied last is the one that was built first
C11_Witness ==
    /\ BothDone
    /\ result.applied = "first"
    /\ inflight["first"].built_at < inflight["second"].built_at
    /\ inflight["first"].competitive_data # inflight["second"].competitive_data
    /\ inflight["first"].clinical_trials # inflight["second"].clinical_trials
    /\ CarriesUpdateOf("first")

----------------------------------------------------------------------------
(* Claims about a competitive and a scenario request in flight (SpecCross) *)

CrossDone == At("competitive", "done") /\ At("scenario", "done")

\* the fields that the two requests set
CrossFields == {"competitive_landscape", "clinical_trials_data", "scenario_models", "updated_at"}

\* C21: for a competitive-analysis request and a scenario-modeling request
\* in flight on the same stored analysis, in every interleaving, once both
\* have completed the stored record carries the competitive_landscape (and
\* clinical_trials_data) of the first and the scenario_models of the second,
\* and every field that neither sets is as it was.
C21_BothUpdatesKept ==
    CrossDone =>
        /\ Len(therapy_analyses) = 1
        /\ DOMAIN therapy_analyses[1] = DOMAIN StoredAnalysis \cup CrossFields
        /\ therapy_analyses[1].competitive_landscape = inflight["competitive"].competitive_data
        /\ therapy_analyses[1].clinical_trials_data =
              PySlice(inflight["competitive"].clinical_trials, 0, 15)
        /\ therapy_analyses[1].scenario_models = inflight["scenario"].scenario_models
        /\ therapy_analyses[1].updated_at = inflight[result.applied].built_at
        /\ \A k \in DOMAIN StoredAnalysis \ CrossFields :
              therapy_analyses[1][k] = StoredAnalysis[k]

\* both completed, the scenario update applied first and the competitive
\* one, which was built earlier, last: the record holds the parsed
\* competitors and the three scenarios
C21_Witness ==
    /\ CrossDone
    /\ result.applied = "competitive"
    /\ inflight["competitive"].built_at < inflight["scenario"].built_at
    /\ therapy_analyses[1].competitive_landscape # StoredAnalysis.competitive_landscape
    /\ DOMAIN therapy_analyses[1].scenario_models.items =
          {"optimistic", "realistic", "pessimistic"}
    /\ therapy_analyses[1].updated_at < inflight["scenario"].built_at

----------------------------------------------------------------------------
(* Claims about funnels (SpecFunnels) *)

\* the stored funnels that reference the analysis
FunnelsIn(collection, analysis_id) ==
    {i \in 1..Len(collection) : collection[i].analysis_id = analysis_id}

\* the funnels stored now that reference the analysis
FunnelsOf(analysis_id) == FunnelsIn(patient_flow_funnels, analysis_id)

\* C22: a generate-funnel request that succeeds adds exactly one funnel,
\* under an identifier no stored funnel has, and leaves every analysis and
\* every earlier funnel as it was (so the funnels that reference an analysis
\* are as many as the requests that succeeded for it); one that fails
\* changes nothing; and a fetch by analysis id changes nothing and returns
\* one of the funnels that reference the analysis, None when there is none.
C22_FunnelsOnlyAdded ==
    [][/\ op' = "generate_funnel" =>
            /\ therapy_analyses' = therapy_analyses
            /\ http'.status # 200 => patient_flow_funnels' = patient_flow_funnels
            /\ http'.status = 200 =>
                  /\ patient_flow_funnels' = Append(patient_flow_funnels, http'.body)
                  /\ \A i \in 1..Len(patient_flow_funnels) :
                        patient_flow_funnels[i].id # http'.body.id
                  /\ Cardinality(FunnelsIn(patient_flow_funnels', http'.request.analysis_id))
                        = Cardinality(FunnelsOf(http'.request.analysis_id)) + 1
       /\ op' = "get_funnel" =>
            /\ store' = store
            /\ http'.status = 200
            /\ FunnelsOf(http'.request.analysis_id) = {} => http'.body = None
            /\ FunnelsOf(http'.request.analysis_id) # {} =>
                  \E i \in FunnelsOf(http'.request.analysis_id) :
                      http'.body = patient_flow_funnels[i]
       /\ op' = "get_analysis" =>
            /\ store' = store
            /\ http'.status = 200 =>
                  /\ FunnelsOf(http'.request.analysis_id) = {} => http'.body.funnel = None
                  /\ FunnelsOf(http'.request.analysis_id) # {} =>
                        \E i \in FunnelsOf(http'.request.analysis_id) :
                            http'.body.funnel = patient_flow_funnels[i]]_vars

\* three funnels stored for the same analysis, under three identifiers, and
\* a fetch by its id that returned the first of them
C22_Witness ==
    /\ op = "get_funnel"
    /\ Len(patient_flow_funnels) = MaxStoredFunnels
    /\ Cardinality(FunnelsOf(NewId("analysis", 1))) = MaxStoredFunnels
    /\ Cardinality({patient_flow_funnels[i].id : i \in 1..Len(patient_flow_funnels)})
          = MaxStoredFunnels
    /\ http.request.analysis_id = NewId("analysis", 1)
    /\ http.body = patient_flow_funnels[1]
    /\ therapy_analyses = <<StoredAnalysis>>

----------------------------------------------------------------------------
(* Claims about updates of stored analyses (SpecUpdates) *)

\* C12: after any sequence of analyze-therapy, competitive-analysis and
\* scenario-modeling requests, the clock never going back, every stored
\* analysis has the identifier it was created with (that of its position of
\* insertion) and updated_at >= created_at.
C12_IdentifierKeptAndUpdatedNotBeforeCreated ==
    \A i \in 1..Len(therapy_analyses) :
        /\ therapy_analyses[i].id = NewId("analysis", i)
        /\ therapy_analyses[i].updated_at >= therapy_analyses[i].created_at

\* an analysis that a competitive-analysis and a scenario-modeling request
\* both updated, after the clock had moved on
C12_Witness ==
    /\ op = "scenario_analysis"
    /\ Len(therapy_analyses) >= 1
    /\ "scenario_models" \in DOMAIN therapy_analyses[1]
    /\ therapy_analyses[1].clinical_trials_data # <<>>
    /\ therapy_analyses[1].created_at = 0
    /\ therapy_analyses[1].updated_at > 0
    /\ therapy_analyses[1].id = NewId("analysis", 1)

----------------------------------------------------------------------------
(* Claims about exports (SpecExport) *)

ListedIds == {http.body[i].id : i \in 1..Len(http.body)}

\* C15: after successful analyze-therapy requests, GET /analyses returns
\* min(n, 50) of the n stored analyses, each once, from the latest
\* created_at to the oldest, and no analysis left out is later than one
\* returned.
C15_ListsLatestFiftyNewestFirst ==
    op = "list_analyses" =>
        /\ http.status = 200
        /\ Len(http.body) = Min(Len(therapy_analyses), ListLimit)
        /\ \A i \in 1..Len(http.body) :
              /\ \E k \in 1..Len(therapy_analyses) : therapy_analyses[k] = http.body[i]
              /\ \A j \in (i + 1)..Len(http.body) :
                    /\ http.body[i].created_at >= http.body[j].created_at
                    /\ http.body[i].id # http.body[j].id
        /\ \A k \in 1..Len(therapy_analyses) :
              therapy_analyses[k].id \notin ListedIds =>
                  \A i \in 1..Len(http.body) :
                      therapy_analyses[k].created_at <= http.body[i].created_at

\* 51 analyses stored at two different times: the 50 latest are listed,
\* latest first, and the oldest is left out
C15_Witness ==
    /\ op = "list_analyses"
    /\ Len(therapy_analyses) = ListLimit + 1
    /\ Len(http.body) = ListLimit
    /\ http.body[1].created_at > http.body[ListLimit].created_at
    /\ therapy_analyses[1].id \notin ListedIds
    /\ http.body[1].id = therapy_analyses[ListLimit + 1].id

\* a chart was built for a non-empty scenario mapping
ChartedMapping ==
    /\ op = "scenario_chart"
    /\ result.scenario_models.kind = "dict"
    /\ DOMAIN result.scenario_models.items # {}

\* the series of scenario sc holds at most the first 6 projections of its
\* entry, the k-th of them (from 0) at year 2024 + k, in the scenario's colour
SeriesOf(sc) ==
    LET trace == result.chart.traces[sc]
        given == Projections(result.scenario_models.items[sc])
    IN  /\ Len(trace.y) = Min(Len(given), 6)
        /\ \A k \in 1..Len(trace.y) : trace.y[k] = given[k]
        /\ trace.x = [k \in 1..Len(trace.y) |-> 2024 + (k - 1)]
        /\ trace.color = CASE sc = "optimistic" -> "green"
                           [] sc = "realistic" -> "blue"
                           [] sc = "pessimistic" -> "red"
                           [] OTHER -> "gray"

SecondaryValuesOf(doc) ==
    /\ doc.clinical_trials_data
          \in {<<>>, PySlice(ClinicalTrials(SecondaryCall("trials", {})), 0, 10)}
    /\ doc.competitive_landscape
          \in {CompetitiveLandscape(Failed),
               CompetitiveLandscape(SecondaryCall("competitive", {}))}
    /\ doc.regulatory_intelligence
          \in {EmptyDict, RegulatoryIntelligence(SecondaryCall("regulatory", {}))}
    /\ doc.risk_assessment \in {EmptyDict, RiskAssessment(SecondaryCall("risk", {}))}

\* C20: analyze_therapy_area writes to the store at most once, as its last
\* step: when the main model call fails the response is a 500 error and no
\* analysis is stored; when it returns, whichever secondary generators fail,
\* their failures become empty or placeholder values and exactly one
\* analysis is stored and returned.
C20_OneWriteUnlessMainFails ==
    [][op' = "analyze_therapy" =>
          /\ patient_flow_funnels' = patient_flow_funnels
          /\ result' = None =>
                /\ http'.status = 500
                /\ therapy_analyses' = therapy_analyses
          /\ result' # None =>
                /\ http'.status = 200
                /\ therapy_analyses' = Append(therapy_analyses, http'.body)
                /\ SecondaryValuesOf(http'.body)]_vars

\* an analysis stored although the trials search and the regulatory call
\* failed, with the competitors and the risks that the other two returned
C20_Witness ==
    /\ op = "analyze_therapy"
    /\ http.status = 200
    /\ therapy_analyses = <<http.body>>
    /\ http.body.clinical_trials_data = <<>>
    /\ http.body.regulatory_intelligence = EmptyDict
    /\ http.body.risk_assessment # EmptyDict
    /\ http.body.competitive_landscape # CompetitiveLandscape(Failed)

----------------------------------------------------------------------------
(* Claims about the embedded-JSON parsers (SpecJson) *)

Before(i) == SubSeq(response, 1, i - 1)

After(j) == SubSeq(response, j + 1, Len(response))

\* response[i..j] is a syntactically valid JSON object
ObjectAt(i, j) ==
    /\ i <= j
    /\ response[i] = "{"
    /\ JsonValid(SubSeq(response, i, j))

ProseTokens == {"w", "{", "}"}

\* C3 as stated: whenever the raw text holds a valid JSON object with prose
\* before and after it, prose that may itself hold '{' or '}', the funnel
\* parser returns exactly that object, decoded.
C3_AnyEmbeddedObjectDecoded ==
    op = "parse_funnel" =>
        \A i, j \in 1..Len(response) :
            (/\ ObjectAt(i, j)
             /\ Elems(Before(i)) \subseteq ProseTokens
             /\ Elems(After(j)) \subseteq ProseTokens)
            => result = Decode(SubSeq(response, i, j))

\* C3 amended: whenever the raw text holds a valid JSON object with no '{' in
\* the text before it and no '}' in the text after it, the funnel parser
\* returns exactly that object, decoded, and not the fallback record.
C3_EmbeddedObjectDecoded ==
    op = "parse_funnel" =>
        \A i, j \in 1..Len(response) :
            (/\ ObjectAt(i, j)
             /\ "{" \notin Elems(Before(i))
             /\ "}" \notin Elems(After(j)))
            => /\ result = Decode(SubSeq(response, i, j))
               /\ result # FunnelFallback(response)

\* an object with a field, between prose on both sides, has been decoded
C3_Witness ==
    /\ op = "parse_funnel"
    /\ response = <<"w", "{", "k", "1", "}", "w">>
    /\ Has(result, "k")
    /\ result.items["k"] = Num(<<"1">>)

\* the response is a valid JSON object with prose before or after it
ObjectInProse ==
    \E i, j \in 1..Len(response) :
        /\ ObjectAt(i, j)
        /\ Elems(Before(i)) \cup Elems(After(j)) = {"w"}

\* C4 as stated: when the substring from the first '{' to the last '}' is a
\* valid JSON object, the regulatory and risk parsers return that object,
\* decoded, whatever prose surrounds it.
C4_ReturnsEmbeddedObject ==
    (op \in {"parse_regulatory", "parse_risk"} /\ ObjectInProse)
    => result = Decode(FunnelJsonStr(response))

\* C4 amended: the regulatory and risk parsers decode the whole response:
\* the decoded document is returned exactly when the whole response is one
\* JSON document, and a valid JSON object preceded or followed by prose
\* yields the fixed fallback record with the raw response in market_access
\* (regulatory) or full_assessment (risk).
C4_WholeResponseDecoded ==
    /\ op = "parse_regulatory" =>
        /\ JsonValid(response) => result = Decode(response)
        /\ ObjectInProse =>
            /\ DOMAIN result.items =
                 {"pathways", "recent_activity", "trends", "timelines", "market_access"}
            /\ result.items["market_access"] = Str(response)
    /\ op = "parse_risk" =>
        /\ JsonValid(response) => result = Decode(response)
        /\ ObjectInProse =>
            /\ "full_assessment" \in DOMAIN result.items
            /\ result.items["full_assessment"] = Str(response)

\* a valid object followed by prose went to the regulatory fallback
C4_Witness ==
    /\ op = "parse_regulatory"
    /\ response = <<"{", "k", "1", "}", "w">>
    /\ result.items["market_access"] = Str(response)
    /\ result.items["pathways"] = Str(<<"See full analysis">>)

\* the text json.loads is given by the parser that acted
Decoded ==
    IF op = "parse_funnel" THEN FunnelJsonStr(response) ELSE response

\* the field of the fallback record that keeps the raw text
Passthrough ==
    IF op = "parse_funnel" THEN "forecasting_notes"
    ELSE IF op = "parse_regulatory" THEN "market_access"
    ELSE "full_assessment"

\* the fixed part of the kind's default record
DefaultFields ==
    IF op = "parse_funnel"
    THEN /\ DOMAIN result.items =
              {"funnel_stages", "total_addressable_population", "forecasting_notes"}
         /\ result.items["total_addressable_population"] = Str(<<"See full analysis response">>)
         /\ Len(result.items["funnel_stages"].elems) = 2
         /\ result.items["funnel_stages"].elems[1].items["stage"] = Str(<<"Total Population">>)
         /\ result.items["funnel_stages"].elems[2].items["stage"] = Str(<<"Target Population">>)
    ELSE IF op = "parse_regulatory"
    THEN /\ DOMAIN result.items =
              {"pathways", "recent_activity", "trends", "timelines", "market_access"}
         /\ \A k \in {"pathways", "recent_activity", "trends", "timelines"} :
              result.items[k] = Str(<<"See full analysis">>)
    ELSE /\ DOMAIN result.items =
              {"clinical_risk", "regulatory_risk", "commercial_risk",
               "operational_risk", "market_risk", "overall_score", "full_assessment"}
         /\ result.items["overall_score"] = Num(<<"5">>)
         /\ result.items["operational_risk"].items["level"] = Str(<<"Low">>)

\* C5: for the funnel, regulatory and risk parsers, when the raw text has a
\* '{' and JSON decoding fails, the result is the kind's fixed default record
\* and its passthrough field holds the raw text (the whole of it).
C5_MalformedFallsBackWithRawText ==
    (op \in {"parse_funnel", "parse_regulatory", "parse_risk"}
        /\ "{" \in Elems(response) /\ ~JsonValid(Decoded))
    => /\ result.kind = "dict"
       /\ DefaultFields
       /\ result.items[Passthrough].kind = "str"
       /\ IsPrefix(result.items[Passthrough].text, response)
       /\ Len(result.items[Passthrough].text) = Len(response)

\* an unterminated object went to the risk fallback, raw text kept
C5_Witness ==
    /\ op = "parse_risk"
    /\ response = <<"w", "{", "k", "1">>
    /\ result.items["full_assessment"] = Str(response)
    /\ result.items["overall_score"] = Num(<<"5">>)

----------------------------------------------------------------------------
(* Claims about the delimited-section parser (SpecSections) *)

\* the raw text holds a '##' marker
HasMarker == \E i \in 1..(Len(response) - 1) : response[i] = "#" /\ response[i + 1] = "#"

\* C6: for every raw text with no '##' marker the parse completes and all
\* five sections are the empty string.
C6_NoMarkerAllSectionsEmpty ==
    (op = "parse_sections" /\ ~HasMarker) => result = NoSections

\* a text that names a section but has no marker was parsed to five empty
\* sections
C6_Witness ==
    /\ op = "parse_sections"
    /\ response = <<"STAGING", "\n", "x">>
    /\ result.staging = <<>>
    /\ result.disease_summary = <<>>

----------------------------------------------------------------------------
(* Claims about the scenario fallback (SpecScenario) *)

\* the base curve scaled by 0.6, 1.0 and 1.8, each value truncated
ExpectedProjections ==
    << <<60, 150, 300, 450, 540, 480>>,
       <<100, 250, 500, 750, 900, 800>>,
       <<180, 450, 900, 1350, 1620, 1440>> >>

MaxOf(q) == CHOOSE m \in Elems(q) : \A x \in Elems(q) : x <= m

\* the entry stored for the scenario is the one of 0-based position i
EntryOfPosition(entry, i) ==
    /\ entry.projections = ExpectedProjections[Min(i, 2) + 1]
    /\ entry.peak_sales = MaxOf(entry.projections)

FallbackTaken == op = "scenario_models" /\ ~JsonValid(response)

\* C10 as stated: in the fallback the scenario at every position i of the
\* caller's list has the base curve scaled by the multiplier of min(i, 2),
\* truncated, and peak_sales equal to the maximum of its projections.
C10_EveryPositionScaled ==
    FallbackTaken =>
        \A i \in 1..Len(scenarios) :
            EntryOfPosition(result.items[scenarios[i]], i - 1)

\* C10 amended: in the fallback the result has one entry per distinct name,
\* and the scenario at position i has the base curve scaled by the multiplier
\* of min(i, 2), truncated, and peak_sales equal to the maximum of its
\* projections, provided its name does not occur again later in the list (a
\* repeated name keeps the entry of its last position); for [pessimistic,
\* realistic, optimistic] the three curves are the ones listed.
C10_LastPositionScaled ==
    FallbackTaken =>
        /\ result.kind = "dict"
        /\ DOMAIN result.items = Elems(scenarios)
        /\ \A i \in 1..Len(scenarios) :
              (\A j \in (i + 1)..Len(scenarios) : scenarios[j] # scenarios[i])
              => EntryOfPosition(result.items[scenarios[i]], i - 1)
        /\ scenarios = <<"pessimistic", "realistic", "optimistic">> =>
              /\ result.items["pessimistic"].projections = <<60, 150, 300, 450, 540, 480>>
              /\ result.items["realistic"].projections = <<100, 250, 500, 750, 900, 800>>
              /\ result.items["optimistic"].projections = <<180, 450, 900, 1350, 1620, 1440>>

\* four distinct names: the fourth, whatever its name, is scaled by 1.8 like
\* the third, and the first, named optimistic, by 0.6
C10_Witness ==
    /\ FallbackTaken
    /\ scenarios = <<"optimistic", "realistic", "pessimistic", "base">>
    /\ result.items["base"].projections = <<180, 450, 900, 1350, 1620, 1440>>
    /\ result.items["pessimistic"].peak_sales = 1620
    /\ result.items["optimistic"].projections = <<60, 150, 300, 450, 540, 480>>

----------------------------------------------------------------------------
(* Claims about the competitor parser (SpecCompetitive) *)

Lines == Split(response, <<"\n">>)

\* the section in force when line i is read
SectionBefore(i) == ScanLines(LoopStart, SubSeq(Lines, 1, i - 1)).current_section

\* the competitors of the line-classification pass
FirstPass == ScanLines(LoopStart, Lines).competitors

\* Position of the first colon of a line of the form '<n>. <Name>: <d>% ...',
\* 0 for any other line.  The form is taken narrowly: <n> is 1, 2 or 3 and
\* <Name> is words of more than two characters in all.
FormColon(line) ==
    IF /\ Len(line) >= 7
       /\ line[1] \in {"1.", "2.", "3."}
       /\ line[2] = " "
       /\ \E c \in 4..(Len(line) - 3) :
            /\ line[c] = ":"
            /\ \A x \in 3..(c - 1) : line[x] \in DOMAIN WordLen \cup {" "}
            /\ CharLen(SubSeq(line, 3, c - 1)) > 2
            /\ line[c + 1] = " "
            /\ line[c + 2] \in DOMAIN Digits
            /\ line[c + 3] = "%"
    THEN Find(line, ":") + 1
    ELSE 0

OtherSections == {"market_dynamics", "pipeline", "positioning", "catalysts"}

\* the lines the scan reads: stripped, the blank ones skipped
ReadLines == SelectSeq([i \in 1..Len(Lines) |-> Strip(Lines[i])], LAMBDA l : l # <<>>)

\* the content lines that follow the header at position h, up to the next
\* header or the end
RunAfter(h) ==
    LET stops == {j \in (h + 1)..Len(ReadLines) : SectionOf(ReadLines[j]) # ""}
        stop  == IF stops = {} THEN Len(ReadLines) + 1
                 ELSE CHOOSE j \in stops : \A x \in stops : j <= x
    IN  SubSeq(ReadLines, h + 1, stop - 1)

\* the last up-to-10 lines, joined by newline
WindowOf(run) == JoinLines(SubSeq(run, Max(Len(run) - 9, 1), Len(run)))

HeadersOf(section) == {h \in 1..Len(ReadLines) : SectionOf(ReadLines[h]) = section}

Last(positions) == CHOOSE h \in positions : \A x \in positions : x <= h

\* the values the scan has stored when it ends
Scanned == ScanLines(LoopStart, Lines)

\* the returned value of a section whose stored value is empty
DefaultOf(section) == CompetitiveAnalysis(<<>>)[section]

\* C16 as stated: at the end of the scan the stored value of each
\* non-competitor section is the last up-to-10 content lines accumulated
\* since the section's most recent header line, joined by newline.
C16_StoredSinceLastHeader ==
    op = "competitive" =>
        \A section \in OtherSections :
            Scanned[section] = IF HeadersOf(section) = {} THEN <<>>
                               ELSE WindowOf(RunAfter(Last(HeadersOf(section))))

\* the headers of a section that are followed by a content line
FilledHeadersOf(section) == {h \in HeadersOf(section) : RunAfter(h) # <<>>}

\* C16 amended: a section-keyword line resets the accumulator, and at the
\* end of the scan the stored value of each non-competitor section is the
\* last up-to-10 content lines accumulated since the most recent header line
\* of that section which a content line follows, joined by newline (a header
\* with no content line after it leaves the stored value as it was); the
\* section stays empty when it has no such header, and a non-empty stored
\* value is the one returned.
C16_StoredSinceLastFilledHeader ==
    op = "competitive" =>
        \A section \in OtherSections :
            /\ Scanned[section] = IF FilledHeadersOf(section) = {} THEN <<>>
                                  ELSE WindowOf(RunAfter(Last(FilledHeadersOf(section))))
            /\ Scanned[section] # <<>> => result[section] = Scanned[section]
            /\ (Scanned[section] = <<>> /\ section # "market_dynamics")
                  => result[section] = DefaultOf(section)

\* a section of 12 content lines: the first two are dropped from the value
C16_Witness ==
    /\ op = "competitive"
    /\ Lines = LongSection(12)
    /\ Len(RunAfter(1)) = 12
    /\ result.market_dynamics = JoinLines(SubSeq(Lines, 4, 13))
    /\ result.market_dynamics # JoinLines(SubSeq(Lines, 2, 13))

ListMarkers == NumberMarkers \cup {"-", "(bullet)"}

\* the text of a line before its first colon, the whole line without one
BeforeColon(line) == IF Find(line, ":") >= 0 THEN PySlice(line, 0, Find(line, ":")) ELSE line

\* the name part of a line that begins with a list marker: the text before
\* the first colon without the leading marker
NamePart(line) == Strip(SubSeq(BeforeColon(line), 2, Len(BeforeColon(line))))

\* the competitor entries that reading line i adds
AddedBy(i) ==
    LET before == ScanLines(LoopStart, SubSeq(Lines, 1, i - 1)).competitors
        after  == ScanLines(LoopStart, SubSeq(Lines, 1, i)).competitors
    IN  SubSeq(after, Len(before) + 1, Len(after))

\* C17: while the section is 'competitors', every line that begins with a
\* numeric marker '1.'..'7.' or a bullet marker, holds no section keyword and
\* has a name part longer than 2 characters yields exactly one competitor
\* entry, named by the text before the first colon with only the leading
\* marker removed.
C17_MarkedLineYieldsNamedEntry ==
    op = "competitive" =>
        \A i \in 1..Len(Lines) :
            LET line == Strip(Lines[i])
            IN  (/\ SectionBefore(i) = "competitors"
                 /\ line # <<>>
                 /\ line[1] \in ListMarkers
                 /\ SectionOf(line) = ""
                 /\ CharLen(NamePart(line)) > 2)
                => /\ Len(AddedBy(i)) = 1
                   /\ AddedBy(i)[1].name = NamePart(line)
                   /\ \E k \in 1..Len(result.competitors) :
                         result.competitors[k].name = NamePart(line)

\* C18: whenever the model call returns a text, the empty one included, the
\* record returned has non-empty market_dynamics, pipeline, positioning and
\* catalysts, at most 7 competitors, and the response itself as
\* full_analysis.
C18_SectionsFilledAndTopSeven ==
    op = "competitive" =>
        /\ \A section \in OtherSections : result[section] # <<>>
        /\ Len(result.competitors) <= 7
        /\ FirstPass # <<>> => result.competitors = SubSeq(FirstPass, 1, Min(Len(FirstPass), 7))
        /\ result.full_analysis = response
        /\ response = <<>> => result.market_dynamics = <<"...">>

\* eight competitor lines and no other section: seven entries are returned
\* and the four sections hold their defaults
C18_Witness ==
    /\ op = "competitive"
    /\ Lines = ManyCompetitors(8)
    /\ Len(FirstPass) = 8
    /\ Len(result.competitors) = 7
    /\ result.market_dynamics = TakeChars(response, 500) \o <<"...">>
    /\ result.pipeline = DefaultOf("pipeline")
    /\ result.full_analysis = response

\* C7: while the section is 'competitors', a line '<n>. <Name>: <d>% <text>'
\* yields a competitor entry with name <Name> and market_share <d>; the line
\* '1. Acme Corp: 30% share, strong pipeline' yields 'Acme Corp' and 30.
C7_CompetitorLineParsed ==
    op = "competitive" =>
        \A i \in 1..Len(Lines) :
            (SectionBefore(i) = "competitors" /\ FormColon(Lines[i]) > 0)
            => \E k \in 1..Len(result.competitors) :
                 /\ result.competitors[k].name = SubSeq(Lines[i], 3, FormColon(Lines[i]) - 1)
                 /\ result.competitors[k].market_share = Digits[Lines[i][FormColon(Lines[i]) + 2]]

\* the entry comes from the line-classification pass
FromLinePass(e) == e.weaknesses = <<"See analysis for details">>

\* the entry comes from the known-company-name pass
FromCompanyPass(e) == e.weaknesses = <<"High competition">>

\* a '<digits>%' pattern in a text
PercentAt(t, i) == i < Len(t) /\ t[i] \in DOMAIN Digits /\ t[i + 1] = "%"

\* the percentages written in a text
Percentages(t) == {Digits[t[i]] : i \in {x \in 1..Len(t) : PercentAt(t, x)}}

\* C8 as stated: an entry of the line-classification pass whose details hold
\* no '<digits>%' has market_share 5, and every market_share the parser
\* produces is a parsed percentage or 5.
C8_DefaultShareIsFive ==
    op = "competitive" =>
        \A k \in 1..Len(result.competitors) :
            /\ (FromLinePass(result.competitors[k])
                    /\ Percentages(result.competitors[k].products) = {})
               => result.competitors[k].market_share = 5
            /\ result.competitors[k].market_share
                 \in Percentages(response) \cup {5}

\* C8 amended: an entry of the line-classification pass whose details hold no
\* '<digits>%' has market_share 25, one whose details hold it has the first
\* such percentage, and an entry of the known-company-name pass has 15; so
\* every market_share the parser produces is a parsed percentage, 25 or 15.
C8_DefaultShareIsTwentyFive ==
    op = "competitive" =>
        \A k \in 1..Len(result.competitors) :
            LET e == result.competitors[k]
            IN  /\ FromLinePass(e) \/ FromCompanyPass(e)
                /\ (FromLinePass(e) /\ Percentages(e.products) = {}) => e.market_share = 25
                /\ (FromLinePass(e) /\ Percentages(e.products) # {})
                     => e.market_share \in Percentages(e.products)
                /\ FromCompanyPass(e) => e.market_share = 15
                /\ e.market_share \in Percentages(response) \cup {25, 15}

\* a competitor line without a percentage got 25, next to one with 10%
C8_Witness ==
    /\ op = "competitive"
    /\ Lines = <<HeaderLine, PfizerLine, HyphenLine>>
    /\ Len(result.competitors) = 2
    /\ result.competitors[1].name = <<"Pfizer">>
    /\ result.competitors[1].market_share = 25
    /\ result.competitors[2].market_share = 10

\* the lines, among ls, that mention a known company
MentioningIn(ls) == {i \in 1..Len(ls) : Elems(ls[i]) \cap KnownCompanies # {}}

Mentioning == MentioningIn(Lines)

\* the k-th line of the set m of line numbers
Kth(m, k) == CHOOSE i \in m : Cardinality({j \in m : j <= i}) = k

\* C9: the known-company-name pass runs only when the line-classification
\* pass extracted no competitor; it then yields one placeholder entry per
\* line that mentions a known company, in order, at most 5 of them, and reads
\* no line after the one that gave the fifth.
C9_SecondaryPassAtMostFive ==
    op = "competitive" =>
        LET ls    == Lines
            first == ScanLines(LoopStart, ls).competitors
            m     == MentioningIn(ls)
        IN  /\ first # <<>> =>
                  /\ result.competitors = PySlice(first, 0, 7)
                  /\ \A k \in 1..Len(result.competitors) : FromLinePass(result.competitors[k])
            /\ first = <<>> =>
                  /\ Len(result.competitors) = Min(5, Cardinality(m))
                  /\ \A k \in 1..Len(result.competitors) :
                        /\ FromCompanyPass(result.competitors[k])
                        /\ result.competitors[k].name = Strip(ls[Kth(m, k)])
                        /\ result.competitors[k].market_share = 15
                  /\ SecondaryScan(ls, 1, <<>>).scanned =
                        IF Cardinality(m) >= 5 THEN Kth(m, 5) ELSE Len(ls)

\* six lines mention a company and none is a competitor line: five entries,
\* the sixth line not read
C9_Witness ==
    /\ op = "competitive"
    /\ Len(Lines) = 6
    /\ Cardinality(Mentioning) = 6
    /\ FirstPass = <<>>
    /\ Len(result.competitors) = 5
    /\ SecondaryScan(Lines, 1, <<>>).scanned = 5

====
